---- MODULE Spec2Model ----
(***************************************************************************)
(* A model of the reference-merge pipeline of arxiv-references:            *)
(*   references/process/merge/normalize.py  (filter_records)               *)
(*   references/process/merge/beliefs.py    (calculate_belief, validate)   *)
(*   references/process/merge/__init__.py   (merge_records; not in src/)   *)
(*                                                                         *)
(* Three specifications, one for each entry point:                         *)
(*   SpecFilter  a caller calls filter_records on one list of records,     *)
(*               again and again with any threshold;                       *)
(*   SpecBelief  one call of calculate_belief on any record of the model;  *)
(*   SpecMerge   one call of merge_records, whose last stage runs the      *)
(*               steps of filter_records.                                  *)
(* The variables of the entry points that a specification does not run     *)
(* stay at their idle values.                                              *)
(*                                                                         *)
(* Floats.  A score handed to filter_records is a multiple of 1/Unit: the  *)
(* integer n stands for the float n/Unit.  Every computed float (a mean, a *)
(* belief) is kept as the exact fraction [num, den] in lowest terms, and   *)
(* fractions are compared by cross multiplication (statistics.mean sums    *)
(* exactly and rounds once, and rounding is monotone, so the order against *)
(* 0.0 and 1.0 is that of the exact fraction).                             *)
(***************************************************************************)
EXTENDS Integers, Sequences, FiniteSets, TLC

\* ---------------------------------------------------------------- bounds
\* The integer that stands for the float 1.0.
Unit == 2
\* Longest input of filter_records.
MaxRecords == 3
\* Most items of the dict of a record handed to calculate_belief.
MaxFields == 2
\* Most extractors of a batch handed to merge_records.
MaxExtractors == 2
\* Most category codes of a registry.
MaxArchives == 3
\* Most calls of current_session in one application context.
MaxCalls == 3
\* The number of workers running at once.
MaxWorkers == 2

\* beliefs.py:260  minimum_length(5)
MinTitleLength == 5

VARIABLES
    records,      \* filter_records: the argument `records`, a list of (ref, score)
    threshold,    \* filter_records: the argument `threshold`
    score_attr,   \* the heap: the `score` attribute of each Reference object
    f_pc,         \* filter_records: "idle", "loop", "tail", "done"
    f_i,          \* filter_records: position of the for loop in `records`
    filtered,     \* filter_records: the local list `filtered`
    f_result,     \* filter_records: what the call returned or raised
    f_prev,       \* the caller: threshold and result of the previous call
    bloom_available,  \* beliefs.py:235  `StringBloomFilter and bloom_filters`
    reference,    \* calculate_belief: the items of reference.to_dict()
    b_pc,         \* calculate_belief: "idle", "field", "funcs", "done", "raised"
    b_k,          \* calculate_belief: position of the outer loop in the items
    b_f,          \* calculate_belief: position of the inner loop in `funcs`
    b_funcs,      \* calculate_belief: the local `funcs`
    b_score,      \* calculate_belief: the local `score`
    output,       \* calculate_belief: the dict `output`, in insertion order
    b_log,        \* what logger.error was called with
    b_called,     \* the (key, function) pairs evaluated so far
    m_pc,         \* merge_records: the stage to run next, "idle" or "done"
    m_batch,      \* merge_records: how many records each extractor delivered
    m_groups,     \* merge_records: the number of aligned groups
    m_beliefs,    \* merge_records: the number of belief maps validate returned
    m_normalized, \* merge_records: the number of merged records normalized
    m_calls,      \* the stage functions called so far, in call order
    m_result,     \* merge_records: what it returned
    archives,     \* the keys of taxonomy.ARCHIVES, in iteration order
    n_input,      \* the record as it was handed to normalize_record first
    n_record,     \* normalize_record: the attributes of `record`
    n_pc,         \* normalize_record: "idle", "loop", "done"
    n_i,          \* normalize_record: position of the loop in NORMALIZERS
    n_first,      \* the caller: the record as the first call returned it
    n_calls,      \* the caller: calls of normalize_record made on the record
    l_env,        \* the process: is pybloof importable, and the state of each data file
    StringBloomFilter, \* beliefs.py:6-10  the class (TRUE) or None (FALSE)
    bloom_filters, \* beliefs.py:50, 232  the stubs whose filter is in the dict
    l_pc,         \* import of beliefs.py: "idle", "import", "open", "from_bytes",
                  \* "raised", "bind", "loaded", "failed"
    l_stub,       \* _load_filters: position of the loop in `stubs`
    l_exc,        \* the exception that left _load_filters
    s_service,    \* the extractor service module: "cermine" or "grobid"
    s_config,     \* is CERMINE_ENDPOINT set in the application config
    s_has_g,      \* does get_application_global() give an application global
    s_g,          \* g.cermine / g.grobid: the stored session, 0 when not in g
    s_pc,         \* current_session: "idle", "global", "get_session", "probe"
    s_store,      \* current_session: is the new session to be stored in g
    s_made,       \* sessions whose __init__ returned; the last one made is s_made
    s_probes,     \* requests sent to the endpoint by a session's __init__
    s_attempts,   \* calls of get_session
    s_caller,     \* who called current_session: "health" or "extract"
    s_ret,        \* what each call of current_session came to, in call order
    r_group,      \* arbitrate: the group, for each extractor its record or a gap
    r_beliefs,    \* arbitrate: the belief map of each member
    r_priors,     \* arbitrate: the prior of each extractor for each field
    r_pc,         \* arbitrate: "idle", "member", "done"
    r_f,          \* arbitrate: position of the loop over the fields
    r_e,          \* arbitrate: position of the loop over the extractors
    r_best,       \* arbitrate: the best candidate of the field so far
    r_merged,     \* arbitrate: the merged record, field by field
    r_weights,    \* arbitrate: the winning weights of the fields decided
    r_score,      \* arbitrate: the score of the group
    a_batch,      \* align: for each extractor, in registration order, its records
    a_groups,     \* align: the groups so far, each a list of (extractor, position)
    a_pc,         \* align: "idle", "record", "done"
    a_e,          \* align: the extractor whose records are being placed
    a_i,          \* align: position of the record to place in that extractor's list
    a_cursor,     \* align: the group that got the extractor's previous record, or 0
    w_task,       \* each worker's invocation: the function and its arguments
    w_pc,         \* each worker's position in the function it runs
    w_k,          \* each invocation's outer/only loop position (a local)
    w_f,          \* each calculate_belief's inner loop position (a local)
    w_funcs,      \* each calculate_belief's local `funcs`
    w_cells,      \* the objects holding `score`, `output`, `filtered` and the log
    w_heap,       \* each worker's own records: their attributes
    w_result      \* what each invocation returned

filterVars == <<records, threshold, score_attr, f_pc, f_i, filtered, f_result, f_prev>>

beliefVars == <<bloom_available, reference, b_pc, b_k, b_f, b_funcs, b_score, output,
                b_log, b_called>>

mergeVars == <<m_pc, m_batch, m_groups, m_beliefs, m_normalized, m_calls, m_result>>

normVars == <<archives, n_input, n_record, n_pc, n_i, n_first, n_calls>>

loadVars == <<l_env, StringBloomFilter, bloom_filters, l_pc, l_stub, l_exc>>

sessionVars == <<s_service, s_config, s_has_g, s_g, s_pc, s_store, s_made, s_probes,
                 s_attempts, s_caller, s_ret>>

arbVars == <<r_group, r_beliefs, r_priors, r_pc, r_f, r_e, r_best, r_merged, r_weights, r_score>>

alignVars == <<a_batch, a_groups, a_pc, a_e, a_i, a_cursor>>

workerVars == <<w_task, w_pc, w_k, w_f, w_funcs, w_cells, w_heap, w_result>>

vars == <<filterVars, beliefVars, mergeVars, normVars, loadVars, sessionVars, arbVars, alignVars, workerVars>>

\* ------------------------------------------------------------ arithmetic
RECURSIVE GCD(_, _)
GCD(a, b) == IF b = 0 THEN a ELSE GCD(b, a % b)

Abs(n) == IF n < 0 THEN -n ELSE n

\* The exact quotient n/d (d > 0) in lowest terms.
Frac(n, d) ==
    LET g == GCD(Abs(n), d)
    IN  [num |-> n \div g, den |-> d \div g]

FracLE(a, b) == a.num * b.den <= b.num * a.den

FracAdd(a, b) == Frac(a.num * b.den + b.num * a.den, a.den * b.den)
FracMul(a, b) == Frac(a.num * b.num, a.den * b.den)
FracMax(a, b) == IF FracLE(a, b) THEN b ELSE a
FracMin(a, b) == IF FracLE(a, b) THEN a ELSE b

\* The floats 0.0 and 1.0.
Zero == Frac(0, 1)
One == Frac(1, 1)

RECURSIVE SumSeq(_)
SumSeq(s) == IF s = <<>> THEN 0 ELSE Head(s) + SumSeq(Tail(s))

\* ------------------------------------------------------------ the inputs
\* Scores and thresholds: every multiple of 1/Unit from -1/Unit to 1 + 1/Unit,
\* so values below 0.0 and above 1.0 are among them.
Scores == -1 .. (Unit + 1)
UnitScores == 0 .. Unit
Thresholds == Scores

\* A list of (ref, score): the i-th pair holds Reference object i.  Arbitration
\* creates one merged record per aligned group, so the objects are distinct.
RecordLists ==
    UNION { { [i \in 1 .. n |-> [ref |-> i, score |-> f[i]]] : f \in [1 .. n -> Scores] }
            : n \in 0 .. MaxRecords }

ScoreUnset == [isset |-> FALSE, val |-> 0]
ScoreSet(s) == [isset |-> TRUE, val |-> s]

NoResult == [kind |-> "none"]
Return(refs, composite) == [kind |-> "return", refs |-> refs, composite |-> composite]
Raise(exc) == [kind |-> "raise", exc |-> exc]

\* -------------------------------------------------------- filter_records
\* A strict comparison in place of the inclusive one.
Retained_Strict(score, t) == score > t

\* The comparison turned around.
Retained_Reversed(score, t) == score <= t

\* normalize.py:117  `if score >= threshold:`
Retained(score, t) == score >= t

\* The score written only onto the records that are kept.
LoopBody_WriteKeptOnly(heap, flt, ref, score, t) ==
    [heap |-> IF Retained(score, t) THEN [heap EXCEPT ![ref] = ScoreSet(score)] ELSE heap,
     flt  |-> IF Retained(score, t)
              THEN Append(flt, [ref |-> ref, score |-> score])
              ELSE flt]

\* normalize.py:115-118, one pass of the loop body on the pair (ref, score):
\* the heap and the list `filtered` after it.
LoopBody(heap, flt, ref, score, t) ==
    [heap |-> [heap EXCEPT ![ref] = ScoreSet(score)],
     flt  |-> IF Retained(score, t)
              THEN Append(flt, [ref |-> ref, score |-> score])
              ELSE flt]

\* statistics.mean: the exact mean, as the composite of a Return;
\* StatisticsError on no data.
Mean(scores) ==
    IF Len(scores) = 0
    THEN Raise("StatisticsError")
    ELSE Return(<<>>, Frac(SumSeq(scores), Len(scores) * Unit))

\* `ref_tuple, scores = zip(*filtered)`: the two columns of `filtered`.
RefsOf(flt) == [i \in 1 .. Len(flt) |-> flt[i].ref]
ScoresOf(flt) == [i \in 1 .. Len(flt) |-> flt[i].score]

\* The scores of all the input pairs.
RecsScores(recs) == [i \in 1 .. Len(recs) |-> recs[i].score]

\* Without the test for an empty list: `ref_tuple, scores = zip(*filtered)`
\* cannot unpack nothing.
FilterTail_NoEmptyTest(recs, flt) ==
    IF Len(flt) = 0
    THEN Raise("ValueError")
    ELSE Return(RefsOf(flt), Mean(ScoresOf(flt)).composite)

\* The mean taken over every input score, dropped records included.
FilterTail_MeanOfAll(recs, flt) ==
    IF Len(flt) = 0
    THEN Return(<<>>, Zero)
    ELSE Return(RefsOf(flt), Mean(RecsScores(recs)).composite)

\* The sum of the retained scores in place of their mean.
FilterTail_Sum(recs, flt) ==
    IF Len(flt) = 0
    THEN Return(<<>>, Zero)
    ELSE Return(RefsOf(flt), Frac(SumSeq(ScoresOf(flt)), Unit))

\* normalize.py:119-123, what follows the loop; `records` and `filtered` are
\* the names in scope there.
FilterTail(recs, flt) ==
    IF Len(flt) = 0
    THEN Return(<<>>, Zero)
    ELSE LET m == Mean(ScoresOf(flt))
         IN  IF m.kind = "raise" THEN m ELSE Return(RefsOf(flt), m.composite)

\* The caller calls filter_records(records, t), as the repository's test does
\* repeatedly on one list of records.
FilterCall ==
    /\ f_pc \in {"idle", "done"}
    /\ \E t \in Thresholds : threshold' = t
    /\ f_prev' = IF f_pc = "done"
                 THEN [called |-> TRUE, threshold |-> threshold, result |-> f_result]
                 ELSE f_prev
    /\ f_pc' = "loop"
    /\ f_i' = 1
    /\ filtered' = <<>>
    /\ f_result' = NoResult
    /\ UNCHANGED <<records, score_attr>>
    /\ UNCHANGED <<beliefVars, mergeVars, normVars, loadVars, sessionVars, arbVars, alignVars, workerVars>>

\* One iteration of `for ref, score in records:`.
FilterLoopStep ==
    /\ f_pc = "loop"
    /\ f_i <= Len(records)
    /\ LET r == LoopBody(score_attr, filtered, records[f_i].ref,
                         records[f_i].score, threshold)
       IN  /\ score_attr' = r.heap
           /\ filtered' = r.flt
    /\ f_i' = f_i + 1
    /\ UNCHANGED <<records, threshold, f_pc, f_result, f_prev>>
    /\ UNCHANGED <<beliefVars, mergeVars, normVars, loadVars, sessionVars, arbVars, alignVars, workerVars>>

\* The loop is exhausted.
FilterLoopExit ==
    /\ f_pc = "loop"
    /\ f_i > Len(records)
    /\ f_pc' = "tail"
    /\ UNCHANGED <<records, threshold, score_attr, f_i, filtered, f_result, f_prev>>
    /\ UNCHANGED <<beliefVars, mergeVars, normVars, loadVars, sessionVars, arbVars, alignVars, workerVars>>

\* Lines 119-123: return, or the exception that leaves the function.
FilterReturn ==
    /\ f_pc = "tail"
    /\ f_result' = FilterTail(records, filtered)
    /\ f_pc' = "done"
    /\ UNCHANGED <<records, threshold, score_attr, f_i, filtered, f_prev>>
    /\ UNCHANGED <<beliefVars, mergeVars, normVars, loadVars, sessionVars, arbVars, alignVars, workerVars>>

\* filter_records is not running.
FilterIdle ==
    /\ records = <<>>
    /\ threshold = 0
    /\ score_attr = <<>>
    /\ f_pc = "idle"
    /\ f_i = 1
    /\ filtered = <<>>
    /\ f_result = NoResult
    /\ f_prev = [called |-> FALSE, threshold |-> 0, result |-> NoResult]

\* calculate_belief is not running.
BeliefIdle ==
    /\ bloom_available = FALSE
    /\ reference = <<>>
    /\ b_pc = "idle"
    /\ b_k = 1
    /\ b_f = 1
    /\ b_funcs = <<>>
    /\ b_score = Zero
    /\ output = <<>>
    /\ b_log = <<>>
    /\ b_called = <<>>

\* merge_records is not running.
MergeIdle ==
    /\ m_pc = "idle"
    /\ m_batch = <<>>
    /\ m_groups = 0
    /\ m_beliefs = 0
    /\ m_normalized = 0
    /\ m_calls = <<>>
    /\ m_result = NoResult

\* normalize_record is not running.
NormIdle ==
    /\ archives = <<>>
    /\ n_input = <<>>
    /\ n_record = <<>>
    /\ n_pc = "idle"
    /\ n_i = 1
    /\ n_first = <<>>
    /\ n_calls = 0

\* beliefs.py is not being imported.
LoadIdle ==
    /\ l_env = <<>>
    /\ StringBloomFilter = FALSE
    /\ bloom_filters = <<>>
    /\ l_pc = "idle"
    /\ l_stub = 1
    /\ l_exc = "none"

\* No extractor service is in use.
SessionIdle ==
    /\ s_service = "none"
    /\ s_config = FALSE
    /\ s_has_g = FALSE
    /\ s_g = 0
    /\ s_pc = "idle"
    /\ s_store = FALSE
    /\ s_made = 0
    /\ s_probes = 0
    /\ s_attempts = 0
    /\ s_caller = "none"
    /\ s_ret = <<>>

\* arbitrate is not running.
ArbitrateIdle ==
    /\ r_group = <<>>
    /\ r_beliefs = <<>>
    /\ r_priors = <<>>
    /\ r_pc = "idle"
    /\ r_f = 1
    /\ r_e = 1
    /\ r_best = <<>>
    /\ r_merged = <<>>
    /\ r_weights = <<>>
    /\ r_score = <<>>

\* align is not running.
AlignIdle ==
    /\ a_batch = <<>>
    /\ a_groups = <<>>
    /\ a_pc = "idle"
    /\ a_e = 1
    /\ a_i = 1
    /\ a_cursor = 0

\* No worker is running.
WorkersIdle ==
    /\ w_task = <<>>
    /\ w_pc = <<>>
    /\ w_k = <<>>
    /\ w_f = <<>>
    /\ w_funcs = <<>>
    /\ w_cells = <<>>
    /\ w_heap = <<>>
    /\ w_result = <<>>

InitFilter ==
    /\ BeliefIdle
    /\ MergeIdle
    /\ NormIdle
    /\ LoadIdle
    /\ SessionIdle
    /\ ArbitrateIdle
    /\ AlignIdle
    /\ WorkersIdle
    /\ records \in RecordLists
    /\ threshold = 0
    /\ score_attr = [r \in 1 .. Len(records) |-> ScoreUnset]
    /\ f_pc = "idle"
    /\ f_i = 1
    /\ filtered = <<>>
    /\ f_result = NoResult
    /\ f_prev = [called |-> FALSE, threshold |-> 0, result |-> NoResult]

NextFilter ==
    \/ FilterCall
    \/ FilterLoopStep
    \/ FilterLoopExit
    \/ FilterReturn

SpecFilter == InitFilter /\ [][NextFilter]_vars

\* ------------------------------------------------ filter_records: claims
Range(s) == { s[i] : i \in 1 .. Len(s) }
Returned == f_pc = "done" /\ f_result.kind = "return"
FirstCall == ~f_prev.called

\* The positions of `records` whose score is at least t.
AtLeast(t) == { i \in 1 .. Len(records) : records[i].score >= t }

RECURSIVE SumScoresAt(_)
SumScoresAt(S) ==
    IF S = {} THEN 0
    ELSE LET i == CHOOSE j \in S : TRUE
         IN  records[i].score + SumScoresAt(S \ {i})

\* C1: a finished call returns, in input order and once each, exactly the
\* records whose score is >= threshold; a score equal to the threshold is kept
\* and none below it is returned.
C1_FilterExact ==
    f_pc = "done" =>
        /\ f_result.kind = "return"
        /\ Range(f_result.refs) = { records[i].ref : i \in AtLeast(threshold) }
        /\ \A i, j \in 1 .. Len(f_result.refs) : i < j => f_result.refs[i] < f_result.refs[j]

C1_Witness ==
    /\ Returned
    /\ \E i \in 1 .. Len(records) :
          records[i].score = threshold /\ records[i].ref \in Range(f_result.refs)
    /\ \E i \in 1 .. Len(records) :
          records[i].score < threshold /\ records[i].ref \notin Range(f_result.refs)

\* C2: when a call has finished, every record of the input, the dropped ones
\* included, carries the score it was paired with, also when nothing was kept.
C2_ScoreWrittenOnAll ==
    f_pc = "done" =>
        \A i \in 1 .. Len(records) :
            score_attr[records[i].ref] = ScoreSet(records[i].score)

C2_Witness ==
    /\ Returned
    /\ FirstCall
    /\ Len(records) >= 2
    /\ f_result.refs = <<>>
    /\ \A i \in 1 .. Len(records) :
          score_attr[records[i].ref] = ScoreSet(records[i].score)

\* C3: when no record is retained (no input, or every score below the
\* threshold) the call returns the empty list and composite 0.0 and raises
\* nothing.
C3_NothingRetained ==
    (f_pc = "done" /\ AtLeast(threshold) = {}) =>
        f_result = Return(<<>>, Zero)

C3_Witness ==
    /\ Returned
    /\ Len(records) >= 1
    /\ AtLeast(threshold) = {}
    /\ f_result.composite = Zero

\* C4: when at least one record is retained, the composite is the arithmetic
\* mean of the retained scores alone.
C4_MeanOfRetained ==
    (f_pc = "done" /\ AtLeast(threshold) # {}) =>
        /\ f_result.kind = "return"
        /\ f_result.composite.num * Cardinality(AtLeast(threshold)) * Unit
             = SumScoresAt(AtLeast(threshold)) * f_result.composite.den

C4_Witness ==
    /\ Returned
    /\ Cardinality(AtLeast(threshold)) >= 2
    /\ \E i \in 1 .. Len(records) : records[i].score < threshold /\ records[i].score # 0

\* C5: when every input score lies in [0.0, 1.0], the composite lies in
\* [0.0, 1.0], whatever the threshold.
C5_CompositeInUnit ==
    (f_pc = "done" /\ \A i \in 1 .. Len(records) : records[i].score \in UnitScores) =>
        /\ f_result.kind = "return"
        /\ FracLE(Zero, f_result.composite)
        /\ FracLE(f_result.composite, One)

C5_Witness ==
    /\ Returned
    /\ Len(records) >= 2
    /\ \A i \in 1 .. Len(records) : records[i].score \in UnitScores
    /\ threshold < 0
    /\ f_result.composite \notin {Zero, One}

\* C6: of two successive calls on the same records, the one with the larger
\* threshold retains a subset, hence no more records, than the other.
C6_Monotone ==
    (f_pc = "done" /\ f_prev.called) =>
        /\ f_result.kind = "return"
        /\ f_prev.result.kind = "return"
        /\ f_prev.threshold < threshold =>
               /\ Range(f_result.refs) \subseteq Range(f_prev.result.refs)
               /\ Len(f_result.refs) <= Len(f_prev.result.refs)
        /\ threshold < f_prev.threshold =>
               /\ Range(f_prev.result.refs) \subseteq Range(f_result.refs)
               /\ Len(f_prev.result.refs) <= Len(f_result.refs)

C6_Witness ==
    /\ Returned
    /\ f_prev.called
    /\ f_prev.threshold < threshold
    /\ Len(f_result.refs) >= 1
    /\ Len(f_result.refs) < Len(f_prev.result.refs)

\* ------------------------------------------------------- Python values
\* A string is the sequence of its characters.  A field value is None, an
\* int, a str or a list of dicts; a dict is a sequence of <<key, string>> pairs.
Digit == {"0", "1", "2", "3", "4", "5", "6", "7", "8", "9"}
Space == {" "}
Punct == {".", "-", "/", ":", "_"}

DigitVal(c) ==
    CASE c = "0" -> 0 [] c = "1" -> 1 [] c = "2" -> 2 [] c = "3" -> 3 [] c = "4" -> 4
      [] c = "5" -> 5 [] c = "6" -> 6 [] c = "7" -> 7 [] c = "8" -> 8 [] c = "9" -> 9

NoneV == [kind |-> "none", n |-> 0, s |-> <<>>, items |-> <<>>]
IntV(n) == [kind |-> "int", n |-> n, s |-> <<>>, items |-> <<>>]
StrV(s) == [kind |-> "str", n |-> 0, s |-> s, items |-> <<>>]
ListV(items) == [kind |-> "list", n |-> 0, s |-> <<>>, items |-> items]

\* bool(value): None, 0, '' and [] are falsy.
Truthy(v) ==
    CASE v.kind = "none" -> FALSE
      [] v.kind = "int"  -> v.n # 0
      [] v.kind = "str"  -> Len(v.s) > 0
      [] v.kind = "list" -> Len(v.items) > 0

\* What a call did: returned the float val, or raised exc.
Ok(val) == [ok |-> TRUE, val |-> val, exc |-> "none"]
Exc(e) == [ok |-> FALSE, val |-> Zero, exc |-> e]

\* dict.get(key, default) and dict.values()
RECURSIVE DictGet(_, _, _)
DictGet(d, key, default) ==
    IF d = <<>> THEN default
    ELSE IF d[1][1] = key THEN d[1][2] ELSE DictGet(Tail(d), key, default)

\* ' '.join(dict.values())
RECURSIVE JoinValues(_)
JoinValues(d) ==
    IF d = <<>> THEN <<>>
    ELSE IF Len(d) = 1 THEN d[1][2]
    ELSE d[1][2] \o <<" ">> \o JoinValues(Tail(d))

\* ------------------------------------------------------------- strings
\* sub in s
HasSub(sub, s) ==
    \E i \in 0 .. (Len(s) - Len(sub)) : SubSeq(s, i + 1, i + Len(sub)) = sub

\* s.endswith(sub)
EndsWith(s, sub) ==
    Len(s) >= Len(sub) /\ SubSeq(s, Len(s) - Len(sub) + 1, Len(s)) = sub

\* The first position from p on whose character is not in class (Len(s) + 1 if none).
RECURSIVE RunEnd(_, _, _)
RunEnd(s, p, class) ==
    IF p > Len(s) \/ s[p] \notin class THEN p ELSE RunEnd(s, p + 1, class)

\* str.split(): the maximal runs of non-space characters.
RECURSIVE SplitFrom(_, _)
SplitFrom(s, p) ==
    IF p > Len(s) THEN <<>>
    ELSE IF s[p] \in Space THEN SplitFrom(s, p + 1)
    ELSE LET e == RunEnd(s, p, { s[i] : i \in 1 .. Len(s) } \ Space)
         IN  <<SubSeq(s, p, e - 1)>> \o SplitFrom(s, e)

Split(s) == SplitFrom(s, 1)

\* str.strip()
Strip(s) ==
    LET a == RunEnd(s, 1, Space)
    IN  IF a > Len(s) THEN <<>>
        ELSE LET b == CHOOSE j \in a .. Len(s) :
                        s[j] \notin Space /\ \A k \in (j + 1) .. Len(s) : s[k] \in Space
             IN  SubSeq(s, a, b)

RECURSIVE DigitsToInt(_)
DigitsToInt(ds) ==
    IF ds = <<>> THEN 0
    ELSE 10 * DigitsToInt(SubSeq(ds, 1, Len(ds) - 1)) + DigitVal(ds[Len(ds)])

AllDigits(s) == Len(s) > 0 /\ \A i \in 1 .. Len(s) : s[i] \in Digit

\* int(s) for a str: surrounding whitespace and one sign are accepted;
\* anything else is a ValueError.
ParseInt(s) ==
    LET t == Strip(s)
        signed == Len(t) > 0 /\ t[1] \in {"+", "-"}
        body == IF signed THEN Tail(t) ELSE t
    IN  IF AllDigits(body)
        THEN [ok |-> TRUE, n |-> IF signed /\ t[1] = "-" THEN 0 - DigitsToInt(body)
                                 ELSE DigitsToInt(body)]
        ELSE [ok |-> FALSE, n |-> 0]

\* beliefs.py:21-25  RE_INTEGER = (?:^|(?:\s+))(\d+)(?:$|(?:\s+)), tried at
\* position p: the digits start at the beginning of the string or after a run
\* of whitespace starting at p, and are followed by the end of the string or
\* by whitespace, all of which the match consumes.
IntegerAfter(s, q) ==
    LET d == RunEnd(s, q, Digit)
    IN  IF d = q THEN [ok |-> FALSE, from |-> q, to |-> q, stop |-> q]
        ELSE IF d > Len(s) THEN [ok |-> TRUE, from |-> q, to |-> d - 1, stop |-> d]
        ELSE IF s[d] \in Space
             THEN [ok |-> TRUE, from |-> q, to |-> d - 1, stop |-> RunEnd(s, d, Space)]
             ELSE [ok |-> FALSE, from |-> q, to |-> q, stop |-> q]

IntegerAt(s, p) ==
    LET atStart == IF p = 1 THEN IntegerAfter(s, 1)
                   ELSE [ok |-> FALSE, from |-> p, to |-> p, stop |-> p]
        w == RunEnd(s, p, Space)
    IN  IF atStart.ok THEN atStart
        ELSE IF w > p THEN IntegerAfter(s, w)
        ELSE [ok |-> FALSE, from |-> p, to |-> p, stop |-> p]

\* The successive non-overlapping matches of RE_INTEGER from position p on:
\* each is [digits, length of the whole match].
RECURSIVE IntegerMatches(_, _)
IntegerMatches(s, p) ==
    IF p > Len(s) THEN <<>>
    ELSE LET m == IntegerAt(s, p)
         IN  IF m.ok
             THEN <<[digits |-> SubSeq(s, m.from, m.to), len |-> m.stop - p]>>
                    \o IntegerMatches(s, m.stop)
             ELSE IntegerMatches(s, p + 1)

\* re.findall(RE_INTEGER, value)
FindIntegers(s) ==
    LET ms == IntegerMatches(s, 1)
    IN  [i \in 1 .. Len(ms) |-> ms[i].digits]

\* len(value) - len(re.subn(RE_INTEGER, '', value)[0])
MatchedLength(s) ==
    LET ms == IntegerMatches(s, 1)
    IN  SumSeq([i \in 1 .. Len(ms) |-> ms[i].len])

\* ----------------------------------------------------- belief functions
\* references.process.textutil.clean_text(value, numok=True): punctuation
\* becomes whitespace.
CleanText(s) == [i \in 1 .. Len(s) |-> IF s[i] \in Punct THEN " " ELSE s[i]]

\* The words the membership filters hold (the data files of _load_filters).
TitleWords == {<<"t", "i", "t", "l", "e">>, <<"o", "f">>}
AuthWords == {<<"a", "n", "n">>, <<"l", "e", "e">>}

\* beliefs.py:66-74
bloom_match(value, bloom_filter) ==
    IF value.kind # "str" THEN Exc("TypeError")
    ELSE LET words == Split(CleanText(value.s))
             score == [i \in 1 .. Len(words) |-> IF words[i] \in bloom_filter THEN 1 ELSE 0]
         IN  IF Len(score) = 0 THEN Ok(Zero)
             ELSE Ok(Frac(SumSeq(score), Len(score)))

\* beliefs.py:77-83  minimum_length(length)
minimum_length(length, value) ==
    IF value.kind \in {"none", "int"} THEN Exc("TypeError")
    ELSE LET n == IF value.kind = "str" THEN Len(value.s) ELSE Len(value.items)
         IN  IF length > n /\ n > 0 THEN Ok(Zero) ELSE Ok(One)

\* beliefs.py:86-92  likely(func, min_prob, max_prob) applied to func's outcome
likely(outcome, min_prob, max_prob) ==
    IF outcome.ok THEN Ok(FracMax(FracMin(outcome.val, max_prob), min_prob))
    ELSE outcome

\* beliefs.py:95-99
does_not_contain_arxiv(value) ==
    IF value.kind # "str" THEN Ok(Zero)
    ELSE IF HasSub(<<"a", "r", "x", "i", "v">>, value.s) THEN Ok(Zero) ELSE Ok(One)

\* beliefs.py:102-109
contains(substring, false_prob, true_prob, value) ==
    IF value.kind # "str" THEN Ok(Zero)
    ELSE IF HasSub(substring, value.s) THEN Ok(true_prob) ELSE Ok(false_prob)

\* beliefs.py:112-119
ends_with(substring, false_prob, true_prob, value) ==
    IF value.kind # "str" THEN Ok(Zero)
    ELSE IF EndsWith(value.s, substring) THEN Ok(true_prob) ELSE Ok(false_prob)

\* beliefs.py:122-125
doesnt_end_with(substring, false_prob, true_prob, value) ==
    ends_with(substring, true_prob, false_prob, value)

\* beliefs.py:128-134: int(value) raises TypeError on None and on a list,
\* which the function does not catch.
is_integer(value) ==
    CASE value.kind = "int" -> Ok(One)
      [] value.kind = "str" -> IF ParseInt(value.s).ok THEN Ok(One) ELSE Ok(Zero)
      [] OTHER -> Exc("TypeError")

\* beliefs.py:137-157
is_integer_like(value) ==
    CASE value.kind = "none" -> Ok(Zero)
      [] value.kind = "int"  -> Ok(One)
      [] value.kind = "list" -> Ok(Zero)
      [] value.kind = "str"  ->
            IF Len(value.s) = 0 THEN Ok(Zero)
            ELSE LET numbers == FindIntegers(value.s)
                     ints == [i \in 1 .. Len(numbers) |->
                                 is_integer(StrV(numbers[i])).val.num]
                 IN  IF Len(numbers) = 0 THEN Ok(Zero)
                     ELSE Ok(FracMul(Frac(SumSeq(ints), Len(numbers)),
                                     Frac(MatchedLength(value.s), Len(value.s))))

\* beliefs.py:164  `year > 1600 and year < 2100`
PlausibleYear(year) == year > 1600 /\ year < 2100

\* beliefs.py:160-168
is_year(value) ==
    CASE value.kind = "int" -> IF PlausibleYear(value.n) THEN Ok(One) ELSE Ok(Zero)
      [] value.kind = "str" ->
            LET p == ParseInt(value.s)
            IN  IF p.ok /\ PlausibleYear(p.n) THEN Ok(One) ELSE Ok(Zero)
      [] OTHER -> Exc("TypeError")

\* beliefs.py:171-179: re.findall raises TypeError on anything but a str,
\* and the function turns every exception into 0.0.
is_year_like(value) ==
    IF value.kind # "str" THEN Ok(Zero)
    ELSE LET numbers == FindIntegers(value.s)
             years == [i \in 1 .. Len(numbers) |-> is_year(StrV(numbers[i])).val.num]
         IN  IF Len(numbers) = 0 THEN Ok(Zero)
             ELSE Ok(Frac(SumSeq(years), Len(numbers)))

\* beliefs.py:182-192: (\d+)(?:\s+)?[\s\-._/\:]+(?:\s+)?(\d+) matched at the
\* start of the value.
is_pages(value) ==
    IF value.kind # "str" THEN Exc("TypeError")
    ELSE LET s == value.s
             a == RunEnd(s, 1, Digit)
             b == RunEnd(s, a, Space \cup Punct)
             c == RunEnd(s, b, Digit)
         IN  IF a > 1 /\ b > a /\ c > b
             THEN IF DigitsToInt(SubSeq(s, 1, a - 1)) < DigitsToInt(SubSeq(s, b, c - 1))
                  THEN Ok(One) ELSE Ok(Frac(1, 2))
             ELSE Ok(Zero)

\* references.util.regex_identifiers.REGEX_DOI, matched at the start: 10.,
\* digits, a slash, and at least one more character.
MatchesDOI(s) ==
    /\ Len(s) >= 3 /\ SubSeq(s, 1, 3) = <<"1", "0", ".">>
    /\ LET d == RunEnd(s, 4, Digit)
       IN  d > 4 /\ d < Len(s) /\ s[d] = "/" /\ s[d + 1] \notin Space

\* REGEX_ISBN_10 and REGEX_ISBN_13, matched at the start: ten digits, or
\* thirteen digits.
MatchesISBN10(s) == RunEnd(s, 1, Digit) > 10
MatchesISBN13(s) == RunEnd(s, 1, Digit) > 13

\* references.util.regex_arxiv.REGEX_ARXIV_STRICT, matched at the start:
\* four digits, a dot, four digits.
MatchesArxivStrict(s) ==
    /\ RunEnd(s, 1, Digit) = 5
    /\ Len(s) >= 5 /\ s[5] = "."
    /\ RunEnd(s, 6, Digit) >= 10

\* beliefs.py:195-199
valid_doi(value) ==
    IF value.kind # "str" THEN Exc("TypeError")
    ELSE IF MatchesDOI(value.s) THEN Ok(One) ELSE Ok(Zero)

\* beliefs.py:202-217: a str value is iterated character by character, and a
\* character has no .get.
valid_identifier(value) ==
    CASE value.kind \in {"none", "int"} -> Exc("TypeError")
      [] value.kind = "str" ->
            IF Len(value.s) = 0 THEN Exc("ZeroDivisionError") ELSE Exc("AttributeError")
      [] value.kind = "list" ->
            LET good == [i \in 1 .. Len(value.items) |->
                            LET idtype == DictGet(value.items[i], "identifier_type", <<>>)
                                idvalue == DictGet(value.items[i], "identifier", <<>>)
                            IN  IF idtype = <<"i", "s", "b", "n">>
                                   /\ (MatchesISBN10(idvalue) \/ MatchesISBN13(idvalue))
                                THEN 1 ELSE 0]
            IN  IF Len(value.items) = 0 THEN Exc("ZeroDivisionError")
                ELSE Ok(Frac(SumSeq(good), Len(value.items)))

\* beliefs.py:220-224
valid_arxiv_id(value) ==
    IF value.kind # "str" THEN Exc("TypeError")
    ELSE IF MatchesArxivStrict(value.s) THEN Ok(One) ELSE Ok(Zero)

\* beliefs.py:227-229
unity(value) == Ok(One)

\* beliefs.py:232-237: the membership scorers are bloom_match when pybloof was
\* imported and the filters were loaded, and unity otherwise.
words_title(value) ==
    IF bloom_available THEN bloom_match(value, TitleWords) ELSE unity(value)

words_auth(value) ==
    IF bloom_available THEN bloom_match(value, AuthWords) ELSE unity(value)

\* beliefs.py:246-251, one author: the membership score of the joined name,
\* divided by the number of words of the surname when there is one.
AuthorScore(auth) ==
    LET mod == words_auth(StrV(CleanText(JoinValues(auth))))
        surname == DictGet(auth, "surname", <<>>)
    IN  IF ~mod.ok THEN mod
        ELSE IF Len(surname) > 0
             THEN IF Len(Split(surname)) = 0 THEN Exc("ZeroDivisionError")
                  ELSE Ok(FracMul(mod.val, Frac(1, Len(Split(surname)))))
             ELSE mod

RECURSIVE SumFracs(_)
SumFracs(fs) == IF fs = <<>> THEN Zero ELSE FracAdd(Head(fs), SumFracs(Tail(fs)))

\* beliefs.py:240-256
words_author_structure(value) ==
    CASE value.kind \in {"none", "int"} -> Exc("TypeError")
      [] value.kind = "str" -> IF Len(value.s) = 0 THEN Ok(Zero) ELSE Exc("AttributeError")
      [] value.kind = "list" ->
            LET scores == [i \in 1 .. Len(value.items) |-> AuthorScore(value.items[i])]
            IN  IF \E i \in 1 .. Len(scores) : ~scores[i].ok
                THEN scores[CHOOSE i \in 1 .. Len(scores) :
                               ~scores[i].ok /\ \A j \in 1 .. (i - 1) : scores[j].ok]
                ELSE IF Len(scores) = 0 THEN Ok(Zero)
                ELSE Ok(FracMul(SumFracs([i \in 1 .. Len(scores) |-> scores[i].val]),
                                Frac(1, Len(scores))))

\* beliefs.py:259-270  BELIEF_FUNCTIONS.get(key, [unity]): the names of the
\* functions registered for a field.
BELIEF_FUNCTIONS(key) ==
    CASE key = "title"       -> <<"words_title", "minimum_length(5)">>
      [] key = "raw"         -> <<"words_title", "words_auth">>
      [] key = "authors"     -> <<"words_author_structure">>
      [] key = "doi"         -> <<"valid_doi", "contains('.')", "contains('/')",
                                  "doesnt_end_with('-')">>
      [] key = "volume"      -> <<"likely(is_integer_like, min_prob=0.8)">>
      [] key = "pages"       -> <<"is_integer_like", "is_pages">>
      [] key = "source"      -> <<"does_not_contain_arxiv">>
      [] key = "year"        -> <<"is_integer_like", "is_integer", "is_year_like", "is_year">>
      [] key = "identifiers" -> <<"valid_identifier">>
      [] key = "arxiv"       -> <<"valid_arxiv_id">>
      [] OTHER               -> <<"unity">>

\* func(value) for the function of that name.
Apply(func, value) ==
    CASE func = "words_title"            -> words_title(value)
      [] func = "words_auth"             -> words_auth(value)
      [] func = "minimum_length(5)"      -> minimum_length(MinTitleLength, value)
      [] func = "words_author_structure" -> words_author_structure(value)
      [] func = "valid_doi"              -> valid_doi(value)
      [] func = "contains('.')"          -> contains(<<".">>, Zero, One, value)
      [] func = "contains('/')"          -> contains(<<"/">>, Zero, One, value)
      [] func = "doesnt_end_with('-')"   -> doesnt_end_with(<<"-">>, Zero, One, value)
      [] func = "likely(is_integer_like, min_prob=0.8)"
                                         -> likely(is_integer_like(value), Frac(4, 5), One)
      [] func = "is_integer_like"        -> is_integer_like(value)
      [] func = "is_pages"               -> is_pages(value)
      [] func = "does_not_contain_arxiv" -> does_not_contain_arxiv(value)
      [] func = "is_integer"             -> is_integer(value)
      [] func = "is_year_like"           -> is_year_like(value)
      [] func = "is_year"                -> is_year(value)
      [] func = "valid_identifier"       -> valid_identifier(value)
      [] func = "valid_arxiv_id"         -> valid_arxiv_id(value)
      [] func = "unity"                  -> unity(value)

\* ------------------------------------------------------------ the records
\* Reference.to_dict(): a dict, here the sequence of its (key, value) items in
\* field order.  The keys are the fields of a Reference and the keys of
\* BELIEF_FUNCTIONS; `issue` stands for the fields with no registered function.
FieldOrder == <<"title", "raw", "authors", "doi", "volume", "pages", "source",
                "year", "identifiers", "arxiv", "arxiv_id", "issue">>

FieldIndex(key) == CHOOSE i \in 1 .. Len(FieldOrder) : FieldOrder[i] = key

AnnLee == <<<<"givennames", <<"a", "n", "n">>>>, <<"surname", <<"l", "e", "e">>>>>>
ADeLee == <<<<"givennames", <<"a", ".">>>>, <<"surname", <<"d", "e", " ", "l", "e", "e">>>>>>
BlankSurname == <<<<"givennames", <<"a", "n", "n">>>>, <<"surname", <<" ">>>>>>
GoodISBN == <<<<"identifier_type", <<"i", "s", "b", "n">>>>, <<"identifier", <<"0", "3", "0", "6", "4", "0", "6", "1", "5", "2">>>>>>
BadISBN == <<<<"identifier_type", <<"i", "s", "b", "n">>>>, <<"identifier", <<"0", "3", "0", "6", "4">>>>>>

\* The values a field takes in the model: empty and falsy ones, well-formed
\* ones, malformed ones, and ones of a type its belief functions fail on.
Samples(key) ==
    CASE key = "title"   -> {NoneV, StrV(<<>>), StrV(<<"a", "b", "c">>), StrV(<<"t", "i", "t", "l", "e", " ", "o", "f", " ", "x">>), IntV(7)}
      [] key = "raw"     -> {StrV(<<>>), StrV(<<"a", "n", "n", " ", "t", "i", "t", "l", "e">>)}
      [] key = "authors" -> {ListV(<<>>), ListV(<<AnnLee>>), ListV(<<AnnLee, ADeLee>>),
                             ListV(<<BlankSurname>>), StrV(<<"a", "n", "n">>)}
      [] key = "doi"     -> {NoneV, StrV(<<"1", "0", ".", "1", "2", "/", "a">>), StrV(<<"1", "0", ".", "1", "2", "/", "a", "-">>), StrV(<<"a", "b", "c">>), IntV(5)}
      [] key = "volume"  -> {StrV(<<>>), StrV(<<"1", "2">>), StrV(<<"v", " ", "1", "2">>), StrV(<<"a", "b">>), IntV(12)}
      [] key = "pages"   -> {NoneV, StrV(<<"1", "2", "-", "3", "4">>), StrV(<<"3", "4", "-", "1", "2">>), StrV(<<"1", "2">>), IntV(12)}
      [] key = "source"  -> {StrV(<<>>), StrV(<<"a", "r", "x", "i", "v">>), StrV(<<"a", "b", "c">>), IntV(3)}
      [] key = "year"    -> {IntV(0), IntV(2011), StrV(<<"2", "0", "1", "1">>), StrV(<<"i", "n", " ", "1", "5", "0", "0">>),
                             StrV(<<"a", "b">>), ListV(<<AnnLee>>)}
      [] key = "identifiers" -> {ListV(<<>>), ListV(<<GoodISBN>>), ListV(<<GoodISBN, BadISBN>>),
                                 StrV(<<"a", "b", "c">>)}
      [] key = "arxiv"   -> {NoneV, StrV(<<"1", "2", "3", "4", ".", "5", "6", "7", "8">>), StrV(<<"a", "b", "c">>), IntV(1)}
      [] key = "arxiv_id" -> {NoneV, StrV(<<"1", "2", "3", "4", ".", "5", "6", "7", "8">>), StrV(<<"h", "e", "p", "t", "h">>)}
      [] key = "issue"   -> {NoneV, StrV(<<"3">>), IntV(3)}

Items ==
    UNION { { [key |-> FieldOrder[i], value |-> v] : v \in Samples(FieldOrder[i]) }
            : i \in 1 .. Len(FieldOrder) }

\* The dicts of at most MaxFields items, keys in field order.
RefDicts ==
    UNION { { d \in [1 .. n -> Items] :
                \A i \in 1 .. (n - 1) : FieldIndex(d[i].key) < FieldIndex(d[i + 1].key) }
            : n \in 0 .. MaxFields }

\* ------------------------------------------------------ calculate_belief
\* Only the value None counts as blank.
IsBlank_NoneOnly(value) == value.kind = "none"

\* beliefs.py:294  `if not value:`
IsBlank(value) == ~Truthy(value)

\* score and log after the call func(value) came out as r.
AfterCall(score, log, key, func, r) ==
    IF r.ok
    THEN [score |-> FracAdd(score, r.val), log |-> log, raised |-> FALSE]
    ELSE [score |-> score, log |-> Append(log, <<key, func, r.exc>>), raised |-> FALSE]

\* The same with no `except`: the exception leaves calculate_belief.
AfterCall_Uncaught(score, log, key, func, r) ==
    IF r.ok
    THEN [score |-> FracAdd(score, r.val), log |-> log, raised |-> FALSE]
    ELSE [score |-> score, log |-> log, raised |-> TRUE]

\* The exception of a belief function is not caught.
TryCall_Propagate(score, log, key, func, value) ==
    AfterCall_Uncaught(score, log, key, func, Apply(func, value))

\* beliefs.py:304-307: the function's result is added to the sum; its
\* exception is logged and adds nothing.
TryCall(score, log, key, func, value) ==
    AfterCall(score, log, key, func, Apply(func, value))

\* The sum stored undivided.
FieldBelief_Undivided(score, funcs) == score

\* beliefs.py:308  `score/len(funcs)`
FieldBelief(score, funcs) == FracMul(score, Frac(1, Len(funcs)))

\* beliefs.py:293-298: a blank value gets belief 1.0 and no function is called.
BeliefBlank ==
    /\ b_pc = "field"
    /\ b_k <= Len(reference)
    /\ IsBlank(reference[b_k].value)
    /\ output' = Append(output, [key |-> reference[b_k].key, belief |-> One])
    /\ b_k' = b_k + 1
    /\ UNCHANGED <<bloom_available, reference, b_pc, b_f, b_funcs, b_score, b_log, b_called>>
    /\ UNCHANGED <<filterVars, mergeVars, normVars, loadVars, sessionVars, arbVars, alignVars, workerVars>>

\* beliefs.py:299-300
BeliefLookup ==
    /\ b_pc = "field"
    /\ b_k <= Len(reference)
    /\ ~IsBlank(reference[b_k].value)
    /\ b_funcs' = BELIEF_FUNCTIONS(reference[b_k].key)
    /\ b_score' = Zero
    /\ b_f' = 1
    /\ b_pc' = "funcs"
    /\ UNCHANGED <<bloom_available, reference, b_k, output, b_log, b_called>>
    /\ UNCHANGED <<filterVars, mergeVars, normVars, loadVars, sessionVars, arbVars, alignVars, workerVars>>

\* beliefs.py:301-307, one iteration of `for func in funcs:`.
BeliefCallFunc ==
    /\ b_pc = "funcs"
    /\ b_f <= Len(b_funcs)
    /\ \E r \in {TryCall(b_score, b_log, reference[b_k].key, b_funcs[b_f],
                        reference[b_k].value)} :
           /\ b_score' = r.score
           /\ b_log' = r.log
           /\ b_pc' = IF r.raised THEN "raised" ELSE "funcs"
    /\ b_called' = Append(b_called, <<reference[b_k].key, b_funcs[b_f]>>)
    /\ b_f' = b_f + 1
    /\ UNCHANGED <<bloom_available, reference, b_k, b_funcs, output>>
    /\ UNCHANGED <<filterVars, mergeVars, normVars, loadVars, sessionVars, arbVars, alignVars, workerVars>>

\* beliefs.py:308
BeliefStore ==
    /\ b_pc = "funcs"
    /\ b_f > Len(b_funcs)
    /\ output' = Append(output, [key |-> reference[b_k].key,
                                 belief |-> FieldBelief(b_score, b_funcs)])
    /\ b_k' = b_k + 1
    /\ b_pc' = "field"
    /\ UNCHANGED <<bloom_available, reference, b_f, b_funcs, b_score, b_log, b_called>>
    /\ UNCHANGED <<filterVars, mergeVars, normVars, loadVars, sessionVars, arbVars, alignVars, workerVars>>

\* beliefs.py:309
BeliefReturn ==
    /\ b_pc = "field"
    /\ b_k > Len(reference)
    /\ b_pc' = "done"
    /\ UNCHANGED <<bloom_available, reference, b_k, b_f, b_funcs, b_score, output,
                   b_log, b_called>>
    /\ UNCHANGED <<filterVars, mergeVars, normVars, loadVars, sessionVars, arbVars, alignVars, workerVars>>

\* The belief module has been imported, with or without its membership
\* filters, and calculate_belief is entered with some record.
InitBelief ==
    /\ FilterIdle
    /\ MergeIdle
    /\ NormIdle
    /\ LoadIdle
    /\ SessionIdle
    /\ ArbitrateIdle
    /\ AlignIdle
    /\ WorkersIdle
    /\ bloom_available \in BOOLEAN
    /\ reference \in RefDicts
    /\ b_pc = "field"
    /\ b_k = 1
    /\ b_f = 1
    /\ b_funcs = <<>>
    /\ b_score = Zero
    /\ output = <<>>
    /\ b_log = <<>>
    /\ b_called = <<>>

NextBelief ==
    \/ BeliefBlank
    \/ BeliefLookup
    \/ BeliefCallFunc
    \/ BeliefStore
    \/ BeliefReturn
SpecBelief == InitBelief /\ [][NextBelief]_vars

\* ---------------------------------------------- calculate_belief: claims
BeliefDone == b_pc = "done"
Populated(k) == Truthy(reference[k].value)
FuncsOf(k) == BELIEF_FUNCTIONS(reference[k].key)
Fails(k, f) == ~Apply(FuncsOf(k)[f], reference[k].value).ok
Called(k, f) == \E c \in 1 .. Len(b_called) : b_called[c] = <<reference[k].key, FuncsOf(k)[f]>>
Logged(k, f) ==
    \E c \in 1 .. Len(b_log) :
        b_log[c][1] = reference[k].key /\ b_log[c][2] = FuncsOf(k)[f]

\* What the functions of item k that do not fail return, summed.
SumOfSuccesses(k) ==
    SumFracs([f \in 1 .. Len(FuncsOf(k)) |->
                 IF Fails(k, f) THEN Zero ELSE Apply(FuncsOf(k)[f], reference[k].value).val])

\* C8: an exception of a belief function never leaves calculate_belief; the
\* failing function adds 0 to the field's sum and is logged, the sum is divided
\* by the number of all the functions registered for the field, and every
\* function of every populated field is still evaluated.
C8_FailureContributesZero ==
    /\ b_pc # "raised"
    /\ BeliefDone =>
          /\ Len(output) = Len(reference)
          /\ \A k \in 1 .. Len(reference) :
                Populated(k) =>
                    /\ FracMul(output[k].belief, Frac(Len(FuncsOf(k)), 1)) = SumOfSuccesses(k)
                    /\ \A f \in 1 .. Len(FuncsOf(k)) :
                          /\ Called(k, f)
                          /\ Fails(k, f) <=> Logged(k, f)

C8_Witness ==
    /\ BeliefDone
    /\ \E k \in 1 .. Len(reference) :
          /\ Populated(k)
          /\ \E f \in 1 .. Len(FuncsOf(k)) : Fails(k, f)
          /\ output[k].belief # Zero
          /\ k < Len(reference)
    /\ \E k \in 1 .. Len(reference) :
          /\ Populated(k)
          /\ \E f \in 1 .. (Len(FuncsOf(k)) - 1) : Fails(k, f) /\ Called(k, f + 1)
          /\ k > 1

\* C9: a field whose value is empty or falsy gets belief exactly 1.0 and none
\* of the functions registered for it is evaluated; a record of blank fields
\* only gets 1.0 for every key.
C9_BlankIsOne ==
    /\ \A c \in 1 .. Len(b_called) :
          \A k \in 1 .. Len(reference) :
              b_called[c][1] = reference[k].key => Populated(k)
    /\ BeliefDone =>
          /\ Len(output) = Len(reference)
          /\ \A k \in 1 .. Len(reference) :
                ~Populated(k) => output[k] = [key |-> reference[k].key, belief |-> One]

C9_Witness ==
    /\ BeliefDone
    /\ Len(reference) >= 2
    /\ \A k \in 1 .. Len(reference) : ~Populated(k)
    /\ \E k \in 1 .. Len(reference) : reference[k].value.kind # "none"
    /\ \A k \in 1 .. Len(output) : output[k].belief = One
    /\ b_called = <<>>

\* C10: the belief map has exactly the keys of the record's dict, and every
\* belief in it lies in [0.0, 1.0], also when belief functions failed.
C10_BeliefInUnit ==
    BeliefDone =>
        /\ Len(output) = Len(reference)
        /\ \A k \in 1 .. Len(reference) :
              /\ output[k].key = reference[k].key
              /\ FracLE(Zero, output[k].belief)
              /\ FracLE(output[k].belief, One)

C10_Witness ==
    /\ BeliefDone
    /\ Len(reference) >= 2
    /\ b_log # <<>>
    /\ \E k \in 1 .. Len(output) : output[k].belief \notin {Zero, One}
    /\ \E k \in 1 .. Len(output) :
          Populated(k) /\ Len(FuncsOf(k)) >= 2 /\ output[k].belief = One

\* The belief calculate_belief stores for a populated value of a field: the
\* mean of what the field's functions return, a failure counting as 0.
BeliefFor(key, value) ==
    LET funcs == BELIEF_FUNCTIONS(key)
        rs == [f \in 1 .. Len(funcs) |-> Apply(funcs[f], value)]
    IN  FracMul(SumFracs([f \in 1 .. Len(funcs) |-> IF rs[f].ok THEN rs[f].val ELSE Zero]),
                Frac(1, Len(funcs)))

\* The belief map's entry for any value of a field.
BeliefOfField(key, value) == IF Truthy(value) THEN BeliefFor(key, value) ELSE One

\* C13: a populated arxiv_id gets belief 1.0 when it matches the arXiv
\* identifier grammar and 0.0 when it does not.
C13_ArxivIdScored ==
    BeliefDone =>
        \A k \in 1 .. Len(reference) :
            (reference[k].key = "arxiv_id" /\ Populated(k) /\ reference[k].value.kind = "str") =>
                output[k].belief = (IF MatchesArxivStrict(reference[k].value.s)
                                    THEN One ELSE Zero)

\* str(n) for an int.
RECURSIVE NatStr(_)
NatStr(n) ==
    LET d == CHOOSE c \in Digit : DigitVal(c) = n % 10
    IN  IF n < 10 THEN <<d>> ELSE Append(NatStr(n \div 10), d)

IntStr(n) == IF n < 0 THEN <<"-">> \o NatStr(0 - n) ELSE NatStr(n)

\* C19: a year given as the int y gets the belief that the decimal string of
\* y gets, and in either form the belief is 1.0 when 1600 < y < 2100.
C19_YearAnyRepresentation ==
    BeliefDone =>
        \A k \in 1 .. Len(reference) :
            reference[k].key = "year" =>
                /\ reference[k].value.kind = "int" =>
                      /\ output[k].belief = BeliefOfField("year", StrV(IntStr(reference[k].value.n)))
                      /\ PlausibleYear(reference[k].value.n) => output[k].belief = One
                /\ (/\ reference[k].value.kind = "str"
                    /\ ParseInt(reference[k].value.s).ok
                    /\ reference[k].value.s = IntStr(ParseInt(reference[k].value.s).n)
                    /\ PlausibleYear(ParseInt(reference[k].value.s).n)) =>
                      output[k].belief = One

\* --------------------------------------------------------- the normalizers
LowerCase == <<"a", "b", "c", "d", "e", "f", "g", "h", "i", "j", "k", "l", "m", "n", "o", "p", "q", "r", "s", "t", "u", "v", "w", "x", "y", "z">>
UpperCase == <<"A", "B", "C", "D", "E", "F", "G", "H", "I", "J", "K", "L", "M", "N", "O", "P", "Q", "R", "S", "T", "U", "V", "W", "X", "Y", "Z">>

IsLower(c) == \E i \in 1 .. Len(LowerCase) : LowerCase[i] = c
IsUpper(c) == \E i \in 1 .. Len(UpperCase) : UpperCase[i] = c
IsCased(c) == IsLower(c) \/ IsUpper(c)

ToUpper(c) ==
    IF IsLower(c) THEN UpperCase[CHOOSE i \in 1 .. Len(LowerCase) : LowerCase[i] = c] ELSE c

ToLower(c) ==
    IF IsUpper(c) THEN LowerCase[CHOOSE i \in 1 .. Len(UpperCase) : UpperCase[i] = c] ELSE c

\* str.title(): a cased character is upper case when the character before
\* it is not cased, and lower case when it is.
Title(s) ==
    [i \in 1 .. Len(s) |-> IF i > 1 /\ IsCased(s[i - 1]) THEN ToLower(s[i]) ELSE ToUpper(s[i])]

\* str.replace(old, new) for a non-empty old: the occurrences of old taken
\* from the left, none overlapping another.
RECURSIVE ReplaceFrom(_, _, _, _)
ReplaceFrom(s, p, old, new) ==
    IF p > Len(s) THEN <<>>
    ELSE IF p + Len(old) - 1 <= Len(s) /\ SubSeq(s, p, p + Len(old) - 1) = old
    THEN new \o ReplaceFrom(s, p + Len(old), old, new)
    ELSE <<s[p]>> \o ReplaceFrom(s, p + 1, old, new)

Replace(s, old, new) == ReplaceFrom(s, 1, old, new)

\* key in dict
DictHas(d, key) == \E i \in 1 .. Len(d) : d[i][1] = key

\* dict.update({key: val}): the value of an existing key is replaced in place.
DictUpdate(d, key, val) ==
    IF DictHas(d, key)
    THEN [i \in 1 .. Len(d) |-> IF d[i][1] = key THEN <<key, val>> ELSE d[i]]
    ELSE Append(d, <<key, val>>)

\* re.sub(r"\.\s*", " ", string): every dot, with the whitespace that follows
\* it, becomes one space.
RECURSIVE DotsToSpace(_, _)
DotsToSpace(s, p) ==
    IF p > Len(s) THEN <<>>
    ELSE IF s[p] = "." THEN <<" ">> \o DotsToSpace(s, RunEnd(s, p + 1, Space))
    ELSE <<s[p]>> \o DotsToSpace(s, p + 1)

\* normalize.py:15-17  _remove_dots
remove_dots(string) == Strip(DotsToSpace(string, 1))

\* normalize.py:20-28  _remove_dots_from_author_names: a key that is missing
\* (author.get gives None) is left missing.
remove_dots_from_author_names(author) ==
    LET a1 == IF DictHas(author, "givennames")
              THEN DictUpdate(author, "givennames",
                              Title(remove_dots(DictGet(author, "givennames", <<>>))))
              ELSE author
    IN  IF DictHas(a1, "fullname")
        THEN DictUpdate(a1, "fullname", Title(remove_dots(DictGet(a1, "fullname", <<>>))))
        ELSE a1

\* [0-9a-zA-Z]
IsAlnum(c) == c \in Digit \/ IsCased(c)

\* normalize.py:31-33  _remove_leading_trailing_nonalpha
remove_leading_trailing_nonalpha(string) ==
    LET alnum == { i \in 1 .. Len(string) : IsAlnum(string[i]) }
    IN  IF alnum = {} THEN <<>>
        ELSE SubSeq(string, CHOOSE i \in alnum : \A j \in alnum : i <= j,
                            CHOOSE i \in alnum : \A j \in alnum : j <= i)

\* normalize.py:40-44, the loop over the categories from `cats` on: the first
\* category whose typo is in the value decides what is returned.
RECURSIVE FixFrom(_, _)
FixFrom(value, cats) ==
    IF cats = <<>> THEN value
    ELSE LET category == Head(cats)
             typo == Replace(category, <<"-">>, <<>>)
         IN  IF HasSub(typo, value)
             THEN Replace(value, typo, category)
             ELSE FixFrom(value, Tail(cats))

\* normalize.py:36-44  _fix_arxiv_id for a str; taxonomy.ARCHIVES.keys() is
\* the variable archives.
fix_arxiv_id(value) == FixFrom(value, archives)

\* normalize.py:47-52  NORMALIZERS: the fields, in order.
NORMALIZERS == <<"authors", "title", "source", "arxiv_id">>

\* normalizer(obj) for the normalizer of a field.
Normalizer(field, obj) ==
    CASE field = "authors"  -> remove_dots_from_author_names(obj)
      [] field = "title"    -> remove_leading_trailing_nonalpha(obj)
      [] field = "source"   -> Title(remove_dots(obj))
      [] field = "arxiv_id" -> fix_arxiv_id(obj)

\* normalize.py:71-74: the value set on the record for a value that is not
\* None.  A list of arxiv_id values reaches _fix_arxiv_id element by element.
Normalized(field, value) ==
    IF value.kind = "list"
    THEN ListV([i \in 1 .. Len(value.items) |-> Normalizer(field, value.items[i])])
    ELSE StrV(Normalizer(field, value.s))

\* ------------------------------------------------------- normalize_record
\* The category codes of the model's registries: hyphenated ones, a code
\* without a hyphen, and one that is a prefix of another's typo.
Codes == {<<"h", "e", "p", "-", "t", "h">>, <<"h", "e", "p", "-", "p", "h">>, <<"m", "a", "t", "h">>, <<"m", "a", "t", "h", "-", "p", "h">>, <<"c", "s">>}

\* taxonomy.ARCHIVES.keys(): distinct codes in any iteration order.
Registries ==
    UNION { { r \in [1 .. n -> Codes] : \A i, j \in 1 .. n : i # j => r[i] # r[j] }
            : n \in 0 .. MaxArchives }

JRLee == <<<<"givennames", <<"j", ".", "r", ".">>>>, <<"surname", <<"l", "e", "e">>>>, <<"fullname", <<"j", ".", "r", ".", " ", "l", "e", "e">>>>>>

\* The values of the normalized fields of a well-formed record: absent ones,
\* clean ones, and ones that need the cleanup.
NormSamples(field) ==
    CASE field = "authors"  -> {NoneV, ListV(<<AnnLee>>), ListV(<<JRLee, ADeLee>>)}
      [] field = "title"    -> {NoneV, StrV(<<"(", "a", " ", "b", ")", ".">>), StrV(<<".", ".", ".">>), ListV(<<<<"-", "a", "b">>>>)}
      [] field = "source"   -> {NoneV, StrV(<<"j", ".", " ", "p", "h", "y", "s", ".", "a">>), StrV(<<"N", "A", "T", "U", "R", "E", " ", "3", "r", "d">>)}
      [] field = "arxiv_id" -> {NoneV, StrV(<<"h", "e", "p", "t", "h", "/", "9", "9">>), StrV(<<"h", "e", "p", "-", "t", "h", "/", "9", "9">>),
                                StrV(<<"m", "a", "t", "h", "p", "h", "/", "0", "3">>), StrV(<<"h", "e", "p", "t", "h", " ", "h", "e", "p", "p", "h">>),
                                StrV(<<"1", "2", "3", "4", ".", "5", "6", "7", "8">>),
                                ListV(<<<<"h", "e", "p", "t", "h", "/", "9", "9">>, <<"h", "e", "p", "p", "h", "/", "9", "8">>>>)}

\* The records with at most MaxFields of the normalized fields present.
NormRecords ==
    { r \in [authors : NormSamples("authors"), title : NormSamples("title"),
             source : NormSamples("source"), arxiv_id : NormSamples("arxiv_id")] :
        Cardinality({ i \in 1 .. Len(NORMALIZERS) : r[NORMALIZERS[i]] # NoneV }) <= MaxFields }

\* normalize.py:68-70: the field is absent, `continue`.
NormalizeSkip ==
    /\ n_pc = "loop"
    /\ n_i <= Len(NORMALIZERS)
    /\ n_record[NORMALIZERS[n_i]].kind = "none"
    /\ n_i' = n_i + 1
    /\ UNCHANGED <<archives, n_input, n_record, n_pc, n_first, n_calls>>
    /\ UNCHANGED <<filterVars, beliefVars, mergeVars, loadVars, sessionVars, arbVars, alignVars, workerVars>>

\* normalize.py:71-74: setattr(record, field, ...).
NormalizeField ==
    /\ n_pc = "loop"
    /\ n_i <= Len(NORMALIZERS)
    /\ n_record[NORMALIZERS[n_i]].kind # "none"
    /\ n_record' = [n_record EXCEPT ![NORMALIZERS[n_i]] =
                       Normalized(NORMALIZERS[n_i], n_record[NORMALIZERS[n_i]])]
    /\ n_i' = n_i + 1
    /\ UNCHANGED <<archives, n_input, n_pc, n_first, n_calls>>
    /\ UNCHANGED <<filterVars, beliefVars, mergeVars, loadVars, sessionVars, arbVars, alignVars, workerVars>>

\* normalize.py:75
NormalizeReturn ==
    /\ n_pc = "loop"
    /\ n_i > Len(NORMALIZERS)
    /\ n_pc' = "done"
    /\ UNCHANGED <<archives, n_input, n_record, n_i, n_first, n_calls>>
    /\ UNCHANGED <<filterVars, beliefVars, mergeVars, loadVars, sessionVars, arbVars, alignVars, workerVars>>

\* The caller hands the normalized record to normalize_record once more.
NormalizeAgain ==
    /\ n_pc = "done"
    /\ n_calls = 1
    /\ n_first' = n_record
    /\ n_calls' = 2
    /\ n_i' = 1
    /\ n_pc' = "loop"
    /\ UNCHANGED <<archives, n_input, n_record>>
    /\ UNCHANGED <<filterVars, beliefVars, mergeVars, loadVars, sessionVars, arbVars, alignVars, workerVars>>

\* normalize_record is entered with some record, under some registry.
InitNormalize ==
    /\ FilterIdle
    /\ BeliefIdle
    /\ MergeIdle
    /\ LoadIdle
    /\ SessionIdle
    /\ ArbitrateIdle
    /\ AlignIdle
    /\ WorkersIdle
    /\ archives \in Registries
    /\ n_input \in NormRecords
    /\ n_record = n_input
    /\ n_pc = "loop"
    /\ n_i = 1
    /\ n_first = <<>>
    /\ n_calls = 1

NextNormalize ==
    \/ NormalizeSkip
    \/ NormalizeField
    \/ NormalizeReturn
    \/ NormalizeAgain

SpecNormalize == InitNormalize /\ [][NextNormalize]_vars

\* ----------------------------------------------- normalize_record: claims
\* The strings of a value: the value itself, or the elements of a list.
Elements(value) ==
    CASE value.kind = "str"  -> <<value.s>>
      [] value.kind = "list" -> value.items
      [] OTHER -> <<>>

Hyphenated(code) == HasSub(<<"-">>, code)
Typo(code) == Replace(code, <<"-">>, <<>>)

\* C11: normalize_record applied to its own result changes no field of it.
C11_Idempotent ==
    (n_pc = "done" /\ n_calls = 2) => n_record = n_first

\* C12: when normalize_record has returned, every element of arxiv_id that
\* held a hyphenated code of the registry with its hyphen dropped holds the
\* hyphenated code, whatever else is in the registry and in whatever order.
C12_TypoRepaired ==
    (n_pc = "done" /\ n_calls = 1) =>
        \A c \in Range(archives) :
            Hyphenated(c) =>
                \A e \in 1 .. Len(Elements(n_input.arxiv_id)) :
                    HasSub(Typo(c), Elements(n_input.arxiv_id)[e]) =>
                        /\ Len(Elements(n_record.arxiv_id)) = Len(Elements(n_input.arxiv_id))
                        /\ HasSub(c, Elements(n_record.arxiv_id)[e])

\* ------------------------------------------------- the import of beliefs.py
\* beliefs.py:44  stubs
Stubs == <<"auth", "title">>

\* What the process finds: pybloof can be imported or not, and each data file
\* is readable, missing, or not the bytes of a filter.
FileStates == {"ok", "missing", "corrupt"}
Environments == [importable : BOOLEAN, files : [{"auth", "title"} -> FileStates]]

\* Only a missing file is caught.
PrepareCatches_MissingFileOnly(exc) == exc = "FileNotFoundError"

\* beliefs.py:34  `except Exception as e:` catches whatever _load_filters raised.
PrepareCatches(exc) == TRUE

\* beliefs.py:6-10: StringBloomFilter is the class, or None on ImportError.
LoadImport ==
    /\ l_pc = "import"
    /\ StringBloomFilter' = l_env.importable
    /\ l_pc' = "open"
    /\ UNCHANGED <<l_env, bloom_filters, l_stub, l_exc>>
    /\ UNCHANGED <<filterVars, beliefVars, mergeVars, normVars, sessionVars, arbVars, alignVars, workerVars>>

\* beliefs.py:51-52  `with open(filename, 'rb') as fn:`
LoadOpen ==
    /\ l_pc = "open"
    /\ l_stub <= Len(Stubs)
    /\ IF l_env.files[Stubs[l_stub]] = "missing"
       THEN l_pc' = "raised" /\ l_exc' = "FileNotFoundError"
       ELSE l_pc' = "from_bytes" /\ l_exc' = l_exc
    /\ UNCHANGED <<l_env, StringBloomFilter, bloom_filters, l_stub>>
    /\ UNCHANGED <<filterVars, beliefVars, mergeVars, normVars, sessionVars, arbVars, alignVars, workerVars>>

\* beliefs.py:53-61: the bytes are read (the EOFError is expected and passed
\* over) and StringBloomFilter.from_byte_array(arr) builds the filter; None
\* has no from_byte_array.
LoadFromBytes ==
    /\ l_pc = "from_bytes"
    /\ IF ~StringBloomFilter
       THEN l_pc' = "raised" /\ l_exc' = "AttributeError"
            /\ UNCHANGED <<bloom_filters, l_stub>>
       ELSE IF l_env.files[Stubs[l_stub]] = "corrupt"
       THEN l_pc' = "raised" /\ l_exc' = "ValueError"
            /\ UNCHANGED <<bloom_filters, l_stub>>
       ELSE /\ bloom_filters' = Append(bloom_filters, Stubs[l_stub])
            /\ l_stub' = l_stub + 1
            /\ l_pc' = "open"
            /\ l_exc' = l_exc
    /\ UNCHANGED <<l_env, StringBloomFilter>>
    /\ UNCHANGED <<filterVars, beliefVars, mergeVars, normVars, sessionVars, arbVars, alignVars, workerVars>>

\* beliefs.py:63, 33: _load_filters returns the dict it built.
LoadReturn ==
    /\ l_pc = "open"
    /\ l_stub > Len(Stubs)
    /\ l_pc' = "bind"
    /\ UNCHANGED <<l_env, StringBloomFilter, bloom_filters, l_stub, l_exc>>
    /\ UNCHANGED <<filterVars, beliefVars, mergeVars, normVars, sessionVars, arbVars, alignVars, workerVars>>

\* beliefs.py:32-35: the exception of _load_filters is caught and {} is
\* returned; an exception that is not caught ends the import.
LoadCatch ==
    /\ l_pc = "raised"
    /\ IF PrepareCatches(l_exc)
       THEN bloom_filters' = <<>> /\ l_pc' = "bind"
       ELSE bloom_filters' = bloom_filters /\ l_pc' = "failed"
    /\ UNCHANGED <<l_env, StringBloomFilter, l_stub, l_exc>>
    /\ UNCHANGED <<filterVars, beliefVars, mergeVars, normVars, sessionVars, arbVars, alignVars, workerVars>>

\* beliefs.py:233-237: words_title and words_auth are bound; the module is
\* loaded, and calculate_belief is called with a record.
LoadBind ==
    /\ l_pc = "bind"
    /\ bloom_available' = (StringBloomFilter /\ bloom_filters # <<>>)
    /\ l_pc' = "loaded"
    /\ b_pc' = "field"
    /\ UNCHANGED <<l_env, StringBloomFilter, bloom_filters, l_stub, l_exc>>
    /\ UNCHANGED <<reference, b_k, b_f, b_funcs, b_score, output, b_log, b_called>>
    /\ UNCHANGED <<filterVars, mergeVars, normVars, sessionVars, arbVars, alignVars, workerVars>>

\* The records whose fields are those the membership scorers are registered for.
LoadRecords ==
    { d \in RefDicts : \A i \in 1 .. Len(d) : d[i].key \in {"title", "raw", "authors"} }

\* A process, in any environment, imports beliefs.py and is then to score a
\* record.
InitLoad ==
    /\ FilterIdle
    /\ MergeIdle
    /\ NormIdle
    /\ SessionIdle
    /\ ArbitrateIdle
    /\ AlignIdle
    /\ WorkersIdle
    /\ l_env \in Environments
    /\ StringBloomFilter = FALSE
    /\ bloom_filters = <<>>
    /\ l_pc = "import"
    /\ l_stub = 1
    /\ l_exc = "none"
    /\ bloom_available = FALSE
    /\ reference \in LoadRecords
    /\ b_pc = "idle"
    /\ b_k = 1
    /\ b_f = 1
    /\ b_funcs = <<>>
    /\ b_score = Zero
    /\ output = <<>>
    /\ b_log = <<>>
    /\ b_called = <<>>

NextLoad ==
    \/ LoadImport
    \/ LoadOpen
    \/ LoadFromBytes
    \/ LoadReturn
    \/ LoadCatch
    \/ LoadBind
    \/ BeliefBlank
    \/ BeliefLookup
    \/ BeliefCallFunc
    \/ BeliefStore
    \/ BeliefReturn

SpecLoad == InitLoad /\ [][NextLoad]_vars

\* --------------------------------------------- the import of beliefs.py: claims
\* pybloof cannot be imported, or a data file cannot be loaded.
FilterUnavailable ==
    \/ ~l_env.importable
    \/ \E i \in 1 .. Len(Stubs) : l_env.files[Stubs[i]] # "ok"

\* Strings the membership scorers are asked about.
ScorerSamples == {StrV(<<>>), StrV(<<"a", "n", "n", " ", "t", "i", "t", "l", "e">>), StrV(<<"x", " ", "y">>)}

\* C14: the import of beliefs.py never fails; when the membership filter is
\* unavailable, words_title and words_auth are the constant 1.0, and
\* calculate_belief returns a belief map with an entry for every field, in
\* which a populated raw, scored by those two alone, gets 1.0.
C14_DegradesToUnity ==
    /\ l_pc # "failed"
    /\ b_pc # "raised"
    /\ (l_pc = "loaded" /\ FilterUnavailable) =>
          /\ \A v \in ScorerSamples : words_title(v) = unity(v) /\ words_auth(v) = unity(v)
          /\ BeliefDone =>
                /\ Len(output) = Len(reference)
                /\ \A k \in 1 .. Len(reference) :
                      /\ output[k].key = reference[k].key
                      /\ (reference[k].key = "raw" /\ Populated(k)) => output[k].belief = One

C14_Witness ==
    /\ l_pc = "loaded"
    /\ BeliefDone
    /\ ~l_env.importable
    /\ \A i \in 1 .. Len(Stubs) : l_env.files[Stubs[i]] = "ok"
    /\ l_exc = "AttributeError"
    /\ Len(reference) >= 2
    /\ \E k \in 1 .. Len(reference) :
          reference[k].key = "raw" /\ Populated(k) /\ output[k].belief = One

\* --------------------------------------------------------- current_session
\* What a call of current_session came to: the session it returned (id 0 when
\* it raised), with the state of g and the counters as the call left them.
CallRecord(kind, id) ==
    [kind |-> kind, id |-> id, caller |-> s_caller, g |-> s_g,
     made |-> s_made, probes |-> s_probes, attempts |-> s_attempts]

\* The test of g left out: a session is made on every call.
NotInG_Always(g) == TRUE

\* services/cermine/__init__.py:90  `if 'cermine' not in g:`
NotInG(g) == g = 0

\* services/cermine/__init__.py:79-81: CERMINE_ENDPOINT must be set;
\* services/grobid/__init__.py:88-90: GROBID_ENDPOINT has a default.
EndpointSet == s_service = "grobid" \/ s_config

\* controllers/health.py:27 and services/cermine/__init__.py:102: the health
\* check or extract_references calls current_session().
SessionCall ==
    /\ s_pc = "idle"
    /\ s_service # "none"
    /\ Len(s_ret) < MaxCalls
    /\ \E c \in {"health", "extract"} : s_caller' = c
    /\ s_pc' = "global"
    /\ UNCHANGED <<s_service, s_config, s_has_g, s_g, s_store, s_made, s_probes,
                   s_attempts, s_ret>>
    /\ UNCHANGED <<filterVars, beliefVars, mergeVars, normVars, loadVars, arbVars, alignVars, workerVars>>

\* services/cermine/__init__.py:87-89: without an application global a new
\* session is returned and stored nowhere.
SessionNoGlobal ==
    /\ s_pc = "global"
    /\ ~s_has_g
    /\ s_store' = FALSE
    /\ s_pc' = "get_session"
    /\ UNCHANGED <<s_service, s_config, s_has_g, s_g, s_made, s_probes, s_attempts,
                   s_caller, s_ret>>
    /\ UNCHANGED <<filterVars, beliefVars, mergeVars, normVars, loadVars, arbVars, alignVars, workerVars>>

\* services/cermine/__init__.py:90-91: nothing is stored in g yet.
SessionMissing ==
    /\ s_pc = "global"
    /\ s_has_g
    /\ NotInG(s_g)
    /\ s_store' = TRUE
    /\ s_pc' = "get_session"
    /\ UNCHANGED <<s_service, s_config, s_has_g, s_g, s_made, s_probes, s_attempts,
                   s_caller, s_ret>>
    /\ UNCHANGED <<filterVars, beliefVars, mergeVars, normVars, loadVars, arbVars, alignVars, workerVars>>

\* services/cermine/__init__.py:92-93: the stored session is returned.
SessionStored ==
    /\ s_pc = "global"
    /\ s_has_g
    /\ ~NotInG(s_g)
    /\ s_ret' = Append(s_ret, CallRecord("session", s_g))
    /\ s_pc' = "idle"
    /\ UNCHANGED <<s_service, s_config, s_has_g, s_g, s_store, s_made, s_probes,
                   s_attempts, s_caller>>
    /\ UNCHANGED <<filterVars, beliefVars, mergeVars, normVars, loadVars, arbVars, alignVars, workerVars>>

\* services/cermine/__init__.py:77-82  get_session: RuntimeError when the
\* endpoint is not set, which leaves current_session.
SessionGetSession ==
    /\ s_pc = "get_session"
    /\ s_attempts' = s_attempts + 1
    /\ IF EndpointSet
       THEN s_pc' = "probe" /\ s_ret' = s_ret
       ELSE /\ s_pc' = "idle"
            /\ s_ret' = Append(s_ret, [CallRecord("raised", 0) EXCEPT
                                          !.attempts = s_attempts + 1])
    /\ UNCHANGED <<s_service, s_config, s_has_g, s_g, s_store, s_made, s_probes, s_caller>>
    /\ UNCHANGED <<filterVars, beliefVars, mergeVars, normVars, loadVars, arbVars, alignVars, workerVars>>

\* services/cermine/__init__.py:34-41 and services/grobid/__init__.py:34-48:
\* __init__ probes the endpoint and raises IOError when it does not answer as
\* expected; the exception leaves current_session and nothing is stored.
SessionProbeFails ==
    /\ s_pc = "probe"
    /\ s_probes' = s_probes + 1
    /\ s_ret' = Append(s_ret, [CallRecord("raised", 0) EXCEPT !.probes = s_probes + 1])
    /\ s_pc' = "idle"
    /\ UNCHANGED <<s_service, s_config, s_has_g, s_g, s_store, s_made, s_attempts, s_caller>>
    /\ UNCHANGED <<filterVars, beliefVars, mergeVars, normVars, loadVars, arbVars, alignVars, workerVars>>

\* The endpoint answers: __init__ returns the new session, which
\* current_session stores in g (line 91) when there is one, and returns.
SessionProbeOk ==
    /\ s_pc = "probe"
    /\ s_probes' = s_probes + 1
    /\ s_made' = s_made + 1
    /\ s_g' = IF s_store THEN s_made + 1 ELSE s_g
    /\ s_ret' = Append(s_ret, [CallRecord("session", s_made + 1) EXCEPT
                                  !.probes = s_probes + 1, !.made = s_made + 1,
                                  !.g = IF s_store THEN s_made + 1 ELSE s_g])
    /\ s_pc' = "idle"
    /\ UNCHANGED <<s_service, s_config, s_has_g, s_store, s_attempts, s_caller>>
    /\ UNCHANGED <<filterVars, beliefVars, mergeVars, normVars, loadVars, arbVars, alignVars, workerVars>>

\* One application context, or none, and one of the services.
InitSession ==
    /\ FilterIdle
    /\ BeliefIdle
    /\ MergeIdle
    /\ NormIdle
    /\ LoadIdle
    /\ ArbitrateIdle
    /\ AlignIdle
    /\ WorkersIdle
    /\ s_service \in {"cermine", "grobid"}
    /\ s_config \in BOOLEAN
    /\ s_has_g \in BOOLEAN
    /\ s_g = 0
    /\ s_pc = "idle"
    /\ s_store = FALSE
    /\ s_made = 0
    /\ s_probes = 0
    /\ s_attempts = 0
    /\ s_caller = "none"
    /\ s_ret = <<>>

NextSession ==
    \/ SessionCall
    \/ SessionNoGlobal
    \/ SessionMissing
    \/ SessionStored
    \/ SessionGetSession
    \/ SessionProbeFails
    \/ SessionProbeOk

SpecSession == InitSession /\ [][NextSession]_vars

\* ------------------------------------------------- current_session: claims
\* C18: with an application global, at most one session is ever made and
\* stored; every call after the first that succeeded returns that session
\* and neither makes a session nor probes the endpoint; a call that raised
\* left nothing in g, and the call after it attempts the construction again.
\* Without an application global, every call that returns has made a new
\* session, and nothing is stored.
C18_OneSessionPerContext ==
    /\ s_has_g =>
          /\ s_made <= 1
          /\ s_g \in {0, 1}
          /\ \A i \in 1 .. Len(s_ret) :
                /\ s_ret[i].kind = "raised" => s_ret[i].g = 0
                /\ \A j \in (i + 1) .. Len(s_ret) :
                      s_ret[i].kind = "session" =>
                          /\ s_ret[j].kind = "session"
                          /\ s_ret[j].id = s_ret[i].id
                          /\ s_ret[j].g = s_ret[i].id
                          /\ s_ret[j].made = s_ret[i].made
                          /\ s_ret[j].probes = s_ret[i].probes
                          /\ s_ret[j].attempts = s_ret[i].attempts
                /\ (i < Len(s_ret) /\ s_ret[i].kind = "raised") =>
                      s_ret[i + 1].attempts = s_ret[i].attempts + 1
    /\ ~s_has_g =>
          /\ s_g = 0
          /\ \A i \in 1 .. Len(s_ret) :
                /\ s_ret[i].attempts = i
                /\ s_ret[i].kind = "session" =>
                      \A j \in 1 .. (i - 1) : s_ret[j].id # s_ret[i].id

C18_Witness ==
    /\ s_has_g
    /\ Len(s_ret) = MaxCalls
    /\ s_ret[1].kind = "raised"
    /\ s_ret[2].kind = "session"
    /\ s_ret[MaxCalls].kind = "session"
    /\ s_ret[MaxCalls].probes = s_ret[2].probes

\* -------------------------------------------------------------------- align
\* Alignment (references/process/merge/align.py) as the specification gives
\* it: the extractors' lists are placed one after the other, in registration
\* order, into one ordered sequence of groups.  A record is the citation it
\* looks like: two records are similar, above the floor, when they look like
\* the same citation.
Citations == 1 .. MaxRecords

\* The batches whose lists have the given lengths.
RECURSIVE BatchesOfLengths(_)
BatchesOfLengths(l) ==
    IF l = <<>> THEN {<<>>}
    ELSE { <<s>> \o rest : s \in [1 .. Head(l) -> Citations],
                           rest \in BatchesOfLengths(Tail(l)) }

\* An ExtractorBatch of at most MaxExtractors lists and MaxRecords records.
AlignBatches ==
    UNION { BatchesOfLengths(l) :
            l \in UNION { { c \in [1 .. n -> 0 .. MaxRecords] : SumSeq(c) <= MaxRecords }
                          : n \in 0 .. MaxExtractors } }

\* The record a group was opened with.
GroupRecord(batch, group) == batch[group[1].ext][group[1].pos]

\* The groups are searched from the first one on.
SearchFrom_Start(cursor) == 1

\* The first group a record may join: the one after the group that got the
\* extractor's previous record.
SearchFrom(cursor) == cursor + 1

\* The groups that the record may join and that it is similar to.
Matches(batch, groups, cursor, record) ==
    { g \in SearchFrom(cursor) .. Len(groups) : GroupRecord(batch, groups[g]) = record }

\* The next record of the extractor joins the first group it matches; with
\* no match it becomes a group of its own, right after the group that got
\* the record before it.
AlignPlace ==
    /\ a_pc = "record"
    /\ a_e <= Len(a_batch)
    /\ a_i <= Len(a_batch[a_e])
    /\ LET member == [ext |-> a_e, pos |-> a_i]
           found == Matches(a_batch, a_groups, a_cursor, a_batch[a_e][a_i])
       IN  IF found # {}
           THEN \E g \in found :
                   /\ \A o \in found : g <= o
                   /\ a_groups' = [a_groups EXCEPT ![g] = Append(@, member)]
                   /\ a_cursor' = g
           ELSE /\ a_groups' = SubSeq(a_groups, 1, a_cursor) \o <<<<member>>>>
                                  \o SubSeq(a_groups, a_cursor + 1, Len(a_groups))
                /\ a_cursor' = a_cursor + 1
    /\ a_i' = a_i + 1
    /\ UNCHANGED <<a_batch, a_pc, a_e>>
    /\ UNCHANGED <<filterVars, beliefVars, mergeVars, normVars, loadVars, sessionVars, arbVars, workerVars>>

\* The extractor's list is exhausted: the next extractor starts from the
\* first group.
AlignNextExtractor ==
    /\ a_pc = "record"
    /\ a_e <= Len(a_batch)
    /\ a_i > Len(a_batch[a_e])
    /\ a_e' = a_e + 1
    /\ a_i' = 1
    /\ a_cursor' = 0
    /\ UNCHANGED <<a_batch, a_groups, a_pc>>
    /\ UNCHANGED <<filterVars, beliefVars, mergeVars, normVars, loadVars, sessionVars, arbVars, workerVars>>

\* Every extractor's list has been placed: the groups are returned.
AlignReturn ==
    /\ a_pc = "record"
    /\ a_e > Len(a_batch)
    /\ a_pc' = "done"
    /\ UNCHANGED <<a_batch, a_groups, a_e, a_i, a_cursor>>
    /\ UNCHANGED <<filterVars, beliefVars, mergeVars, normVars, loadVars, sessionVars, arbVars, workerVars>>

InitAlign ==
    /\ FilterIdle
    /\ BeliefIdle
    /\ MergeIdle
    /\ NormIdle
    /\ LoadIdle
    /\ SessionIdle
    /\ ArbitrateIdle
    /\ WorkersIdle
    /\ a_batch \in AlignBatches
    /\ a_groups = <<>>
    /\ a_pc = "record"
    /\ a_e = 1
    /\ a_i = 1
    /\ a_cursor = 0

NextAlign ==
    \/ AlignPlace
    \/ AlignNextExtractor
    \/ AlignReturn

SpecAlign == InitAlign /\ [][NextAlign]_vars

\* ------------------------------------------------------------ align: claims
\* The places (group, position in the group) that hold record i of extractor e.
PlacesOf(e, i) ==
    { <<g, k>> \in (1 .. Len(a_groups)) \X (1 .. MaxExtractors + MaxRecords) :
        k <= Len(a_groups[g]) /\ a_groups[g][k] = [ext |-> e, pos |-> i] }

GroupOf(e, i) == (CHOOSE p \in PlacesOf(e, i) : TRUE)[1]

\* C17: in the alignment returned, no group holds two records of one
\* extractor, every record of every extractor is in exactly one group, the
\* groups of an extractor's records follow one another as the records do in
\* the extractor's list, and a batch of no extractors gives no groups.
C17_AlignmentWellFormed ==
    a_pc = "done" =>
        /\ \A g \in 1 .. Len(a_groups) :
              /\ Len(a_groups[g]) >= 1
              /\ \A k, l \in 1 .. Len(a_groups[g]) :
                    k # l => a_groups[g][k].ext # a_groups[g][l].ext
              /\ \A k \in 1 .. Len(a_groups[g]) :
                    /\ a_groups[g][k].ext \in 1 .. Len(a_batch)
                    /\ a_groups[g][k].pos \in 1 .. Len(a_batch[a_groups[g][k].ext])
        /\ \A e \in 1 .. Len(a_batch) :
              /\ \A i \in 1 .. Len(a_batch[e]) : Cardinality(PlacesOf(e, i)) = 1
              /\ \A i, j \in 1 .. Len(a_batch[e]) : i < j => GroupOf(e, i) < GroupOf(e, j)
        /\ Len(a_batch) = 0 => a_groups = <<>>

C17_Witness ==
    /\ a_pc = "done"
    /\ Len(a_batch) = 2
    /\ Len(a_groups) = 2
    /\ a_groups[1] = <<[ext |-> 2, pos |-> 1]>>
    /\ a_groups[2] = <<[ext |-> 1, pos |-> 1], [ext |-> 2, pos |-> 2]>>

\* ---------------------------------------------------------------- arbitrate
\* Arbitration (references/process/merge/arbitrate.py) as the specification
\* gives it.  Extractors are numbered in registration order; a group holds,
\* for each, its record or a gap; a field's value is 0 when empty, and the
\* non-empty value of extractor e is written e, so that a merged value tells
\* where it came from.
ArbFields == <<"source", "year">>

\* What one extractor brings to a group: a gap, or a record whose fields are
\* empty (belief 1.0) or populated (belief 0.0 or 1.0), and a prior of 0.5 or
\* 1.0 for each field.
CellChoices == {[value |-> 0, belief |-> One], [value |-> 1, belief |-> Zero],
                [value |-> 1, belief |-> One]}

PriorChoices == {Frac(1, 2), One}

MemberChoices ==
    { m \in [present : BOOLEAN, source : CellChoices, year : CellChoices,
             psource : PriorChoices, pyear : PriorChoices] :
        ~m.present => (m.source.value = 0 /\ m.year.value = 0
                       /\ m.psource = One /\ m.pyear = One) }

\* weight = prior[extractor][field] * belief[extractor][field]
Weight(priors, beliefs, e, field) == FracMul(priors[e][field], beliefs[e][field])

\* A tie goes to the candidate examined last.
Better_LastWins(weight, best) == best.ext = 0 \/ FracLE(best.weight, weight)

\* A candidate replaces the best so far when its weight is greater; the
\* extractors are examined in registration order, so a tie stays with the
\* one registered first.
Better(weight, best) == best.ext = 0 \/ ~FracLE(weight, best.weight)

NoBest == [ext |-> 0, weight |-> Zero]

\* The mean of the winning weights; 0.0 when no field had a candidate.
GroupScore(weights) ==
    IF weights = <<>> THEN Zero
    ELSE FracMul(SumFracs(weights), Frac(1, Len(weights)))

\* The member r_e is examined for the field r_f: a non-empty value is a
\* candidate.
ArbitrateConsider ==
    /\ r_pc = "member"
    /\ r_e <= Len(r_group)
    /\ LET field == ArbFields[r_f]
           w == Weight(r_priors, r_beliefs, r_e, field)
       IN  r_best' = IF r_group[r_e].present /\ r_group[r_e][field] # 0 /\ Better(w, r_best)
                     THEN [ext |-> r_e, weight |-> w]
                     ELSE r_best
    /\ r_e' = r_e + 1
    /\ UNCHANGED <<r_group, r_beliefs, r_priors, r_pc, r_f, r_merged, r_weights, r_score>>
    /\ UNCHANGED <<filterVars, beliefVars, mergeVars, normVars, loadVars, sessionVars, alignVars, workerVars>>

\* Every member has been examined: the field gets the winning value, or stays
\* empty when there was no candidate.
ArbitrateDecide ==
    /\ r_pc = "member"
    /\ r_e > Len(r_group)
    /\ r_f <= Len(ArbFields)
    /\ r_merged' = [r_merged EXCEPT ![ArbFields[r_f]] =
                       IF r_best.ext = 0 THEN 0 ELSE r_group[r_best.ext][ArbFields[r_f]]]
    /\ r_weights' = IF r_best.ext = 0 THEN r_weights ELSE Append(r_weights, r_best.weight)
    /\ r_best' = NoBest
    /\ r_e' = IF r_f < Len(ArbFields) THEN 1 ELSE r_e
    /\ r_f' = r_f + 1
    /\ UNCHANGED <<r_group, r_beliefs, r_priors, r_pc, r_score>>
    /\ UNCHANGED <<filterVars, beliefVars, mergeVars, normVars, loadVars, sessionVars, alignVars, workerVars>>

\* The merged record and the score of the group are returned.
ArbitrateReturn ==
    /\ r_pc = "member"
    /\ r_f > Len(ArbFields)
    /\ r_score' = GroupScore(r_weights)
    /\ r_pc' = "done"
    /\ UNCHANGED <<r_group, r_beliefs, r_priors, r_f, r_e, r_best, r_merged, r_weights>>
    /\ UNCHANGED <<filterVars, beliefVars, mergeVars, normVars, loadVars, sessionVars, alignVars, workerVars>>

\* arbitrate is called with a group of at least one member, the members'
\* belief maps and the priors.
InitArbitrate ==
    /\ FilterIdle
    /\ BeliefIdle
    /\ MergeIdle
    /\ NormIdle
    /\ LoadIdle
    /\ SessionIdle
    /\ AlignIdle
    /\ WorkersIdle
    /\ \E n \in 1 .. MaxExtractors :
          \E m \in [1 .. n -> MemberChoices] :
              /\ \E e \in 1 .. n : m[e].present
              /\ r_group = [e \in 1 .. n |->
                                [present |-> m[e].present, source |-> m[e].source.value * e,
                                 year |-> m[e].year.value * e]]
              /\ r_beliefs = [e \in 1 .. n |->
                                  [source |-> m[e].source.belief, year |-> m[e].year.belief]]
              /\ r_priors = [e \in 1 .. n |-> [source |-> m[e].psource, year |-> m[e].pyear]]
    /\ r_pc = "member"
    /\ r_f = 1
    /\ r_e = 1
    /\ r_best = NoBest
    /\ r_merged = [source |-> 0, year |-> 0]
    /\ r_weights = <<>>
    /\ r_score = Zero

NextArbitrate ==
    \/ ArbitrateConsider
    \/ ArbitrateDecide
    \/ ArbitrateReturn

SpecArbitrate == InitArbitrate /\ [][NextArbitrate]_vars

\* -------------------------------------------------------- arbitrate: claims
\* The members with a non-empty value for a field.
Candidates(field) ==
    { e \in 1 .. Len(r_group) : r_group[e].present /\ r_group[e][field] # 0 }

\* The candidate of greatest weight, the one registered first among equals.
Winner(field) ==
    CHOOSE e \in Candidates(field) :
        \A o \in Candidates(field) :
            /\ FracLE(Weight(r_priors, r_beliefs, o, field), Weight(r_priors, r_beliefs, e, field))
            /\ Weight(r_priors, r_beliefs, o, field) = Weight(r_priors, r_beliefs, e, field)
                  => e <= o

\* C16: in the merged record of a group, every field with a non-empty
\* candidate holds the value of the member whose prior * belief is greatest,
\* the extractor registered first among equals, each field decided on its
\* own; a field with no non-empty candidate is empty.
C16_MaxWeightPerField ==
    r_pc = "done" =>
        \A i \in 1 .. Len(ArbFields) :
            LET field == ArbFields[i]
            IN  IF Candidates(field) = {}
                THEN r_merged[field] = 0
                ELSE r_merged[field] = r_group[Winner(field)][field]

C16_Witness ==
    /\ r_pc = "done"
    /\ Cardinality(Candidates("source")) >= 2
    /\ Cardinality(Candidates("year")) >= 2
    /\ r_merged.source = 2
    /\ r_merged.year = 1
    /\ Weight(r_priors, r_beliefs, 1, "year") = Weight(r_priors, r_beliefs, 2, "year")
    /\ ~FracLE(Weight(r_priors, r_beliefs, 2, "source"), Weight(r_priors, r_beliefs, 1, "source"))

\* ------------------------------------------------------ concurrent workers
\* Several workers each run one of calculate_belief, normalize_record and
\* filter_records on records of their own, their steps interleaved in any
\* order.  What the module level holds (BELIEF_FUNCTIONS, the membership
\* scorers, NORMALIZERS, taxonomy.ARCHIVES) is shared and read by all.
Workers == 1 .. MaxWorkers

NoTask == [kind |-> "none", reference |-> <<>>, record |-> <<>>, records |-> <<>>,
           threshold |-> 0]

\* Invocations of calculate_belief: records whose functions read the
\* membership filters, fail, and succeed.
BeliefTasks ==
    { [NoTask EXCEPT !.kind = "belief", !.reference = d] :
        d \in { <<[key |-> "raw", value |-> StrV(<<"a", "n", "n", " ", "t", "i", "t", "l", "e">>)]>>,
                <<[key |-> "title", value |-> IntV(7)],
                  [key |-> "year", value |-> IntV(2011)]>> } }

\* Invocations of normalize_record.
NormalizeTasks ==
    { [NoTask EXCEPT !.kind = "normalize", !.record = r] :
        r \in { [authors |-> NoneV, title |-> NoneV, source |-> StrV(<<"j", ".", " ", "p", "h", "y", "s", ".", "a">>),
                 arxiv_id |-> StrV(<<"h", "e", "p", "t", "h", "/", "9", "9">>)],
                [authors |-> ListV(<<JRLee, ADeLee>>), title |-> StrV(<<"(", "a", " ", "b", ")", ".">>),
                 source |-> NoneV, arxiv_id |-> NoneV] } }

\* Invocations of filter_records, the records being the worker's objects 1, 2.
FilterTasks ==
    { [NoTask EXCEPT !.kind = "filter", !.records = rs, !.threshold = 1] :
        rs \in { <<[ref |-> 1, score |-> Unit], [ref |-> 2, score |-> 0]>>,
                 <<[ref |-> 1, score |-> 1]>> } }

WorkerTasks == BeliefTasks \cup NormalizeTasks \cup FilterTasks

\* The registries the workers' process may have loaded.
WorkerRegistries == {<<<<"h", "e", "p", "-", "t", "h">>, <<"h", "e", "p", "-", "p", "h">>>>, <<<<"m", "a", "t", "h">>>>}

EmptyCell == [score |-> Zero, output |-> <<>>, filtered |-> <<>>, log |-> <<>>]

\* `score`, `output` and `filtered` kept at module level, one for all.
OwnCell_ModuleLevel(w) == 1

\* beliefs.py:291, 300 and normalize.py:114: `output = {}`, `score = 0.` and
\* `filtered = []` are created by the invocation and are its own.
OwnCell(w) == w

\* beliefs.py:293-309, one step of worker w's calculate_belief.
WorkerBeliefStep(w) ==
    /\ w_task[w].kind = "belief"
    /\ w_pc[w] \in {"field", "funcs"}
    /\ LET ref == w_task[w].reference
           c == OwnCell(w)
           k == w_k[w]
       IN  IF w_pc[w] = "field" /\ k > Len(ref)
           THEN /\ w_result' = [w_result EXCEPT ![w] =
                                   [kind |-> "belief", output |-> w_cells[c].output]]
                /\ w_pc' = [w_pc EXCEPT ![w] = "done"]
                /\ UNCHANGED <<w_k, w_f, w_funcs, w_cells>>
           ELSE IF w_pc[w] = "field" /\ IsBlank(ref[k].value)
           THEN /\ w_cells' = [w_cells EXCEPT ![c].output =
                                  Append(@, [key |-> ref[k].key, belief |-> One])]
                /\ w_k' = [w_k EXCEPT ![w] = k + 1]
                /\ UNCHANGED <<w_pc, w_f, w_funcs, w_result>>
           ELSE IF w_pc[w] = "field"
           THEN /\ w_funcs' = [w_funcs EXCEPT ![w] = BELIEF_FUNCTIONS(ref[k].key)]
                /\ w_cells' = [w_cells EXCEPT ![c].score = Zero]
                /\ w_f' = [w_f EXCEPT ![w] = 1]
                /\ w_pc' = [w_pc EXCEPT ![w] = "funcs"]
                /\ UNCHANGED <<w_k, w_result>>
           ELSE IF w_f[w] <= Len(w_funcs[w])
           THEN /\ \E r \in {TryCall(w_cells[c].score, w_cells[c].log, ref[k].key,
                                     w_funcs[w][w_f[w]], ref[k].value)} :
                       w_cells' = [w_cells EXCEPT ![c].score = r.score, ![c].log = r.log]
                /\ w_f' = [w_f EXCEPT ![w] = w_f[w] + 1]
                /\ UNCHANGED <<w_pc, w_k, w_funcs, w_result>>
           ELSE /\ w_cells' = [w_cells EXCEPT ![c].output =
                                  Append(@, [key |-> ref[k].key,
                                             belief |-> FieldBelief(w_cells[c].score,
                                                                    w_funcs[w])])]
                /\ w_k' = [w_k EXCEPT ![w] = k + 1]
                /\ w_pc' = [w_pc EXCEPT ![w] = "field"]
                /\ UNCHANGED <<w_f, w_funcs, w_result>>
    /\ UNCHANGED <<w_task, w_heap, bloom_available, archives>>

\* normalize.py:67-75, one step of worker w's normalize_record on its record.
WorkerNormalizeStep(w) ==
    /\ w_task[w].kind = "normalize"
    /\ w_pc[w] = "loop"
    /\ LET k == w_k[w]
           record == w_heap[w].record
       IN  IF k > Len(NORMALIZERS)
           THEN /\ w_result' = [w_result EXCEPT ![w] = [kind |-> "normalize", record |-> record]]
                /\ w_pc' = [w_pc EXCEPT ![w] = "done"]
                /\ UNCHANGED <<w_k, w_heap>>
           ELSE /\ w_heap' = IF record[NORMALIZERS[k]].kind = "none" THEN w_heap
                             ELSE [w_heap EXCEPT ![w].record[NORMALIZERS[k]] =
                                      Normalized(NORMALIZERS[k], record[NORMALIZERS[k]])]
                /\ w_k' = [w_k EXCEPT ![w] = k + 1]
                /\ UNCHANGED <<w_pc, w_result>>
    /\ UNCHANGED <<w_task, w_f, w_funcs, w_cells, bloom_available, archives>>

\* normalize.py:114-123, one step of worker w's filter_records on its records.
WorkerFilterStep(w) ==
    /\ w_task[w].kind = "filter"
    /\ w_pc[w] = "loop"
    /\ LET recs == w_task[w].records
           c == OwnCell(w)
           k == w_k[w]
       IN  IF k > Len(recs)
           THEN /\ w_result' = [w_result EXCEPT ![w] =
                                   [kind |-> "filter",
                                    returned |-> FilterTail(recs, w_cells[c].filtered)]]
                /\ w_pc' = [w_pc EXCEPT ![w] = "done"]
                /\ UNCHANGED <<w_k, w_heap, w_cells>>
           ELSE /\ \E r \in {LoopBody(w_heap[w].scores, w_cells[c].filtered, recs[k].ref,
                                      recs[k].score, w_task[w].threshold)} :
                       /\ w_heap' = [w_heap EXCEPT ![w].scores = r.heap]
                       /\ w_cells' = [w_cells EXCEPT ![c].filtered = r.flt]
                /\ w_k' = [w_k EXCEPT ![w] = k + 1]
                /\ UNCHANGED <<w_pc, w_result>>
    /\ UNCHANGED <<w_task, w_f, w_funcs, bloom_available, archives>>

\* Some worker takes its next step in calculate_belief.
WorkersBelief ==
    /\ \E w \in Workers : WorkerBeliefStep(w)
    /\ UNCHANGED <<reference, b_pc, b_k, b_f, b_funcs, b_score, output, b_log, b_called>>
    /\ UNCHANGED <<n_input, n_record, n_pc, n_i, n_first, n_calls>>
    /\ UNCHANGED <<filterVars, mergeVars, loadVars, sessionVars, arbVars, alignVars>>

\* Some worker takes its next step in normalize_record.
WorkersNormalize ==
    /\ \E w \in Workers : WorkerNormalizeStep(w)
    /\ UNCHANGED <<reference, b_pc, b_k, b_f, b_funcs, b_score, output, b_log, b_called>>
    /\ UNCHANGED <<n_input, n_record, n_pc, n_i, n_first, n_calls>>
    /\ UNCHANGED <<filterVars, mergeVars, loadVars, sessionVars, arbVars, alignVars>>

\* Some worker takes its next step in filter_records.
WorkersFilter ==
    /\ \E w \in Workers : WorkerFilterStep(w)
    /\ UNCHANGED <<reference, b_pc, b_k, b_f, b_funcs, b_score, output, b_log, b_called>>
    /\ UNCHANGED <<n_input, n_record, n_pc, n_i, n_first, n_calls>>
    /\ UNCHANGED <<filterVars, mergeVars, loadVars, sessionVars, arbVars, alignVars>>

\* The modules are imported, and every worker has been handed an invocation
\* and records of its own.
InitWorkers ==
    /\ FilterIdle
    /\ MergeIdle
    /\ LoadIdle
    /\ SessionIdle
    /\ ArbitrateIdle
    /\ AlignIdle
    /\ bloom_available \in BOOLEAN
    /\ reference = <<>> /\ b_pc = "idle" /\ b_k = 1 /\ b_f = 1 /\ b_funcs = <<>>
    /\ b_score = Zero /\ output = <<>> /\ b_log = <<>> /\ b_called = <<>>
    /\ archives \in WorkerRegistries
    /\ n_input = <<>> /\ n_record = <<>> /\ n_pc = "idle" /\ n_i = 1
    /\ n_first = <<>> /\ n_calls = 0
    /\ w_task \in [Workers -> WorkerTasks]
    /\ w_pc = [w \in Workers |-> IF w_task[w].kind = "belief" THEN "field" ELSE "loop"]
    /\ w_k = [w \in Workers |-> 1]
    /\ w_f = [w \in Workers |-> 1]
    /\ w_funcs = [w \in Workers |-> <<>>]
    /\ w_cells = [w \in Workers |-> EmptyCell]
    /\ w_heap = [w \in Workers |->
                    [record |-> w_task[w].record,
                     scores |-> [i \in 1 .. Len(w_task[w].records) |-> ScoreUnset]]]
    /\ w_result = [w \in Workers |-> NoResult]

NextWorkers ==
    \/ WorkersBelief
    \/ WorkersNormalize
    \/ WorkersFilter

SpecWorkers == InitWorkers /\ [][NextWorkers]_vars

\* ---------------------------------------------- concurrent workers: claims
\* normalize_record run alone, from NORMALIZERS[i] on.
RECURSIVE NormalizedFrom(_, _)
NormalizedFrom(record, i) ==
    IF i > Len(NORMALIZERS) THEN record
    ELSE NormalizedFrom(IF record[NORMALIZERS[i]].kind = "none" THEN record
                        ELSE [record EXCEPT ![NORMALIZERS[i]] =
                                 Normalized(NORMALIZERS[i], record[NORMALIZERS[i]])],
                        i + 1)

\* The loop of filter_records run alone, from records[i] on.
RECURSIVE FilteredFrom(_, _, _, _, _)
FilteredFrom(heap, flt, recs, i, t) ==
    IF i > Len(recs) THEN [heap |-> heap, flt |-> flt]
    ELSE LET r == LoopBody(heap, flt, recs[i].ref, recs[i].score, t)
         IN  FilteredFrom(r.heap, r.flt, recs, i + 1, t)

\* What an invocation returns, and leaves in its records, when it runs alone.
AloneResult(task) ==
    CASE task.kind = "belief" ->
            [kind |-> "belief",
             output |-> [k \in 1 .. Len(task.reference) |->
                            [key |-> task.reference[k].key,
                             belief |-> BeliefOfField(task.reference[k].key,
                                                      task.reference[k].value)]]]
      [] task.kind = "normalize" ->
            [kind |-> "normalize", record |-> NormalizedFrom(task.record, 1)]
      [] task.kind = "filter" ->
            [kind |-> "filter",
             returned |-> FilterTail(task.records,
                                     FilteredFrom([i \in 1 .. Len(task.records) |-> ScoreUnset],
                                                  <<>>, task.records, 1, task.threshold).flt)]

AloneScores(task) ==
    FilteredFrom([i \in 1 .. Len(task.records) |-> ScoreUnset], <<>>, task.records, 1,
                 task.threshold).heap

\* C15: however the steps of the workers' invocations interleave, each
\* invocation that has returned has returned, and left in its records,
\* what it does when run alone.
C15_NoInterference ==
    \A w \in DOMAIN w_pc :
        w_pc[w] = "done" =>
            /\ w_result[w] = AloneResult(w_task[w])
            /\ w_task[w].kind = "normalize" => w_heap[w].record = w_result[w].record
            /\ w_task[w].kind = "filter" => w_heap[w].scores = AloneScores(w_task[w])

C15_Witness ==
    /\ w_pc # <<>>
    /\ \A w \in Workers : w_pc[w] = "done"
    /\ bloom_available
    /\ w_task[1].kind = "belief" /\ w_task[2].kind = "belief"
    /\ w_task[1] # w_task[2]
    /\ w_result[1].output # w_result[2].output
    /\ \E w \in Workers : w_cells[w].log # <<>>

\* ---------------------------------------------------------- merge_records
\* The orchestrator (references/process/merge/__init__.py) as the
\* specification gives it: align(batch), belief scoring of every group member,
\* arbitration of each group, normalization of each merged record,
\* filter(threshold).  A record's content plays no part in the order of the
\* stages, so a batch is the number of records of each extractor.
Batches ==
    UNION { { b \in [1 .. n -> 0 .. MaxRecords] :
                SumSeq(b) <= MaxRecords }
            : n \in 0 .. MaxExtractors }

RECURSIVE MaxSeq(_)
MaxSeq(s) ==
    IF s = <<>> THEN 0
    ELSE LET m == MaxSeq(Tail(s)) IN IF Head(s) > m THEN Head(s) ELSE m

\* An extractor gives a group at most one record and every record is in one
\* group: there are at least as many groups as the longest list has records,
\* and at most one per record.
GroupCounts(batch) == MaxSeq(batch) .. SumSeq(batch)

\* The arbitrated records of g groups: new Reference objects, each paired with
\* its group's score, which lies in [0.0, 1.0].
MergedLists(g) ==
    { [i \in 1 .. g |-> [ref |-> i, score |-> f[i]]] : f \in [1 .. g -> UnitScores] }

\* The stage that follows a stage, belief scoring left out.
StageAfter_NoValidate(stage) ==
    CASE stage = "align"     -> "arbitrate"
      [] stage = "validate"  -> "arbitrate"
      [] stage = "arbitrate" -> "normalize"
      [] stage = "normalize" -> "filter"
      [] stage = "filter"    -> "return"
      [] stage = "return"    -> "done"

\* The stage that follows a stage.
StageAfter(stage) ==
    CASE stage = "align"     -> "validate"
      [] stage = "validate"  -> "arbitrate"
      [] stage = "arbitrate" -> "normalize"
      [] stage = "normalize" -> "filter"
      [] stage = "filter"    -> "return"
      [] stage = "return"    -> "done"

\* aligned = align.align_records(batch)
MergeAlign ==
    /\ m_pc = "align"
    /\ m_calls' = Append(m_calls, "align_records")
    /\ \E g \in GroupCounts(m_batch) : m_groups' = g
    /\ m_pc' = StageAfter("align")
    /\ UNCHANGED <<m_batch, m_beliefs, m_normalized, m_result>>
    /\ UNCHANGED <<filterVars, beliefVars, normVars, loadVars, sessionVars, arbVars, alignVars, workerVars>>

\* beliefs.py:349-354  validate(aligned): one belief map for each
\* (extractor, record) pair of each group.
MergeValidate ==
    /\ m_pc = "validate"
    /\ m_calls' = Append(m_calls, "validate")
    /\ m_beliefs' = SumSeq(m_batch)
    /\ m_pc' = StageAfter("validate")
    /\ UNCHANGED <<m_batch, m_groups, m_normalized, m_result>>
    /\ UNCHANGED <<filterVars, beliefVars, normVars, loadVars, sessionVars, arbVars, alignVars, workerVars>>

\* arbitrate.arbitrate_all(aligned, beliefs, priors): one merged record and
\* score for each group.
MergeArbitrate ==
    /\ m_pc = "arbitrate"
    /\ m_calls' = Append(m_calls, "arbitrate_all")
    /\ records' \in MergedLists(m_groups)
    /\ score_attr' = [r \in 1 .. m_groups |-> ScoreUnset]
    /\ m_pc' = StageAfter("arbitrate")
    /\ UNCHANGED <<m_batch, m_groups, m_beliefs, m_normalized, m_result>>
    /\ UNCHANGED <<threshold, f_pc, f_i, filtered, f_result, f_prev>>
    /\ UNCHANGED <<beliefVars, normVars, loadVars, sessionVars, arbVars, alignVars, workerVars>>

\* normalize.py:78-91  normalize_records: every merged record, in place.
MergeNormalize ==
    /\ m_pc = "normalize"
    /\ m_calls' = Append(m_calls, "normalize_records")
    /\ m_normalized' = Len(records)
    /\ m_pc' = StageAfter("normalize")
    /\ UNCHANGED <<m_batch, m_groups, m_beliefs, m_result>>
    /\ UNCHANGED <<filterVars, beliefVars, normVars, loadVars, sessionVars, arbVars, alignVars, workerVars>>

\* normalize.filter_records(records, threshold) is called; its steps are those
\* of filter_records above.
MergeFilter ==
    /\ m_pc = "filter"
    /\ m_calls' = Append(m_calls, "filter_records")
    /\ \E t \in Thresholds : threshold' = t
    /\ f_pc' = "loop"
    /\ f_i' = 1
    /\ filtered' = <<>>
    /\ m_pc' = StageAfter("filter")
    /\ UNCHANGED <<m_batch, m_groups, m_beliefs, m_normalized, m_result>>
    /\ UNCHANGED <<records, score_attr, f_result, f_prev>>
    /\ UNCHANGED <<beliefVars, normVars, loadVars, sessionVars, arbVars, alignVars, workerVars>>

\* filter_records has returned, and merge_records returns what it returned.
MergeReturn ==
    /\ m_pc = "return"
    /\ f_pc = "done"
    /\ m_result' = f_result
    /\ m_pc' = StageAfter("return")
    /\ UNCHANGED <<m_batch, m_groups, m_beliefs, m_normalized, m_calls>>
    /\ UNCHANGED <<filterVars, beliefVars, normVars, loadVars, sessionVars, arbVars, alignVars, workerVars>>

InitMerge ==
    /\ BeliefIdle
    /\ FilterIdle
    /\ NormIdle
    /\ LoadIdle
    /\ SessionIdle
    /\ ArbitrateIdle
    /\ AlignIdle
    /\ WorkersIdle
    /\ m_batch \in Batches
    /\ m_pc = "align"
    /\ m_groups = 0
    /\ m_beliefs = 0
    /\ m_normalized = 0
    /\ m_calls = <<>>
    /\ m_result = NoResult

NextMerge ==
    \/ MergeAlign
    \/ MergeValidate
    \/ MergeArbitrate
    \/ MergeNormalize
    \/ MergeFilter
    \/ FilterLoopStep
    \/ FilterLoopExit
    \/ FilterReturn
    \/ MergeReturn

SpecMerge == InitMerge /\ [][NextMerge]_vars

\* ------------------------------------------------- merge_records: claims
StageCalls == <<"align_records", "validate", "arbitrate_all", "normalize_records",
                "filter_records">>

IsPrefix(s, t) == Len(s) <= Len(t) /\ SubSeq(t, 1, Len(s)) = s

\* C7: one call of merge_records calls align_records, validate,
\* arbitrate_all, the normalizer and filter_records once each and in that
\* order, and a stage begins only when the one before it has finished.
C7_StagesOnceInOrder ==
    /\ IsPrefix(m_calls, StageCalls)
    /\ m_pc = "done" => (m_calls = StageCalls /\ f_pc = "done" /\ m_result = f_result)
    /\ f_pc \in {"loop", "tail"} => (m_pc = "return" /\ m_calls = StageCalls)
    /\ m_pc \in {"validate", "arbitrate", "normalize", "filter"} =>
          /\ f_pc = "idle"
          /\ Len(m_calls) >= 1
          /\ m_calls[Len(m_calls)] =
                (CASE m_pc = "validate"  -> "align_records"
                   [] m_pc = "arbitrate" -> "validate"
                   [] m_pc = "normalize" -> "arbitrate_all"
                   [] m_pc = "filter"    -> "normalize_records")

C7_Witness ==
    /\ m_pc = "done"
    /\ m_calls = StageCalls
    /\ m_result.kind = "return"
    /\ Len(m_result.refs) >= 1
    /\ Len(m_result.refs) < m_groups
    /\ m_beliefs > m_groups

====
